---- MODULE Spec2Model ----
(***************************************************************************)
(* A model of the Pelican image_process plugin                             *)
(* (pelican/plugins/image_process/image_process.py).                       *)
(*                                                                         *)
(* Strings are sequences of one-character strings, so that the string      *)
(* operations of the source (split, join, strip, startswith, quote ...)    *)
(* are computed as the source computes them.  The only lexeme longer than  *)
(* one character is MARK, the 14 characters "image-process-" of a class    *)
(* token, and GENERIC, the class token "image-process".                    *)
(*                                                                         *)
(* A value the source computes once and reads several times is passed on   *)
(* as an operator parameter, so a function of the source is often modelled *)
(* by a short chain of operators, each taking what the lines before it     *)
(* computed.                                                               *)
(***************************************************************************)
EXTENDS Integers, Sequences, FiniteSets, TLC

\* ------------------------------------------------------------------------
\* Strings
\* ------------------------------------------------------------------------

Empty == << >>

\* The least element of a set of positions, 0 for the empty set.
First(hits) == IF hits = {} THEN 0 ELSE CHOOSE i \in hits : \A j \in hits : i <= j

\* The greatest element of a set of positions, 0 for the empty set.
Last(hits) == IF hits = {} THEN 0 ELSE CHOOSE i \in hits : \A j \in hits : j <= i

StartsWith(s, p) == Len(p) <= Len(s) /\ SubSeq(s, 1, Len(p)) = p

EndsWith(s, p) == Len(p) <= Len(s) /\ SubSeq(s, Len(s) - Len(p) + 1, Len(s)) = p

\* s[n:], Python's slice from index n.
Drop(s, n) == SubSeq(s, n + 1, Len(s))

RECURSIVE LStrip(_, _)
LStrip(s, c) == IF s # Empty /\ Head(s) = c THEN LStrip(Tail(s), c) ELSE s

RECURSIVE RStrip(_, _)
RStrip(s, c) ==
    IF s # Empty /\ s[Len(s)] = c THEN RStrip(SubSeq(s, 1, Len(s) - 1), c) ELSE s

\* str.find(sub): the first 1-based position of sub in s, 0 when absent.
Find(s, sub) ==
    First({i \in 1..(Len(s) - Len(sub) + 1) : SubSeq(s, i, i + Len(sub) - 1) = sub})

\* str.rfind(c) for one character: the last position of c in s, 0 when absent.
RFind(s, c) == Last({i \in 1..Len(s) : s[i] = c})

\* s.partition(sep)[2], sep first occurring at position i (0: nowhere): what
\* follows that occurrence, "" when there is none.
AfterSep(s, sep, i) == IF i = 0 THEN Empty ELSE Drop(s, i + Len(sep) - 1)

PartitionAfter(s, sep) == AfterSep(s, sep, Find(s, sep))

AllSlashes(s) == \A i \in 1..Len(s) : s[i] = "/"

\* posixpath.join(a, b)
Join2(a, b) ==
    IF b # Empty /\ Head(b) = "/" THEN b
    ELSE IF a = Empty \/ a[Len(a)] = "/" THEN a \o b
    ELSE a \o <<"/">> \o b

\* posixpath.join(a, p1, p2, ...) for a sequence ps of further components.
RECURSIVE Join(_, _)
Join(a, ps) == IF ps = << >> THEN a ELSE Join(Join2(a, Head(ps)), Tail(ps))

\* posixpath.split(p) = <<head, tail>>, from the two parts around the last "/".
SplitParts(head, tail) ==
    << IF head # Empty /\ ~AllSlashes(head) THEN RStrip(head, "/") ELSE head, tail >>

SplitAt(p, i) == SplitParts(SubSeq(p, 1, i), Drop(p, i))

Split(p) == SplitAt(p, RFind(p, "/"))

\* posixpath.dirname(p)
Dirname(p) == Split(p)[1]

\* os.path.split(p)[1]
Basename(p) == Split(p)[2]

\* ------------------------------------------------------------------------
\* URL quoting (urllib.parse.quote / unquote) over the model's alphabet
\* ------------------------------------------------------------------------

Letters == {"a", "b", "c", "d", "e", "f", "g", "h", "i", "j", "k", "l", "m",
            "n", "o", "p", "q", "r", "s", "t", "u", "v", "w", "x", "y", "z",
            "A", "C"}

Digits == {"0", "1", "2", "3", "4", "5", "6", "7", "8", "9"}

\* The characters quote() leaves alone: letters, digits, "_.-~" and "/".
SafeChars == Letters \cup Digits \cup {"_", ".", "-", "~", "/"}

\* The %XX escape of a character that quote() escapes.
Escape(c) ==
    CASE c = " " -> <<"%", "2", "0">>
      [] c = "," -> <<"%", "2", "C">>
      [] c = "%" -> <<"%", "2", "5">>
      [] c = ":" -> <<"%", "3", "A">>
      [] OTHER   -> <<c>>

RECURSIVE Quote(_)
Quote(s) ==
    IF s = Empty THEN Empty
    ELSE (IF Head(s) \in SafeChars THEN <<Head(s)>> ELSE Escape(Head(s)))
         \o Quote(Tail(s))

\* The character a %XX escape stands for; "" when XX is no escape of the
\* model's alphabet (unquote() then leaves the three characters as they are).
Unescape(x, y) ==
    CASE x = "2" /\ y = "0" -> " "
      [] x = "2" /\ y = "C" -> ","
      [] x = "2" /\ y = "5" -> "%"
      [] x = "3" /\ y = "A" -> ":"
      [] OTHER -> ""

RECURSIVE Unquote(_)
Unquote(s) ==
    IF s = Empty THEN Empty
    ELSE IF Head(s) = "%" /\ Len(s) >= 3 /\ Unescape(s[2], s[3]) # ""
         THEN <<Unescape(s[2], s[3])>> \o Unquote(Drop(s, 3))
         ELSE <<Head(s)>> \o Unquote(Tail(s))

\* urllib.request.pathname2url / url2pathname on a POSIX host.
Pathname2Url(p) == Quote(p)
Url2Pathname(u) == Unquote(u)

\* urlparse(url).path: the url without its scheme ("h:") and its network
\* location ("//host").  The model's references carry no query or fragment.
SchemeChars == Letters \cup Digits \cup {"+", "-", "."}

\* The length of the scheme and its ":", the first ":" being at position i.
SchemeLen(url, i) ==
    IF i > 1 /\ url[1] \in Letters /\ \A k \in 1..(i - 1) : url[k] \in SchemeChars
    THEN i ELSE 0

\* What follows the network location, the first "/" after "//" being at j.
AfterNetloc(after, j) == IF j = 0 THEN Empty ELSE Drop(after, j - 1)

NetlocPath(after) == AfterNetloc(after, Find(after, <<"/">>))

StripNetloc(rest) ==
    IF StartsWith(rest, <<"/", "/">>) THEN NetlocPath(Drop(rest, 2)) ELSE rest

UrlPath(url) == StripNetloc(Drop(url, SchemeLen(url, Find(url, <<":">>))))

\* ------------------------------------------------------------------------
\* Settings
\* ------------------------------------------------------------------------

\* The lexemes of class tokens: "image-process-" and "image-process".
MARK == "image-process-"
GENERIC == <<"image-process">>

\* An absent attribute, an unset setting, Python's None.
None == <<"None">>

\* The literal "default" of build_srcset and of the picture functions.
DEFAULT == <<"d", "e", "f", "a", "u", "l", "t">>

PATH == <<"/", "c">>
OUTPUT_PATH == <<"/", "o">>
IMAGE_PROCESS_DIR == <<"d">>

\* Python values whose type the code tests with isinstance().
PyList(v) == [py |-> "list", v |-> v]
PyDict(v) == [py |-> "dict", v |-> v]
PyStr(v) == [py |-> "str", v |-> v]
PyTuple(v) == [py |-> "tuple", v |-> v]
PyNone == [py |-> "NoneType", v |-> None]

\* Operation lists.  A step is the word list step.split(" ") yields.
OpsA == << <<"crop", <<"0">>, <<"0">>, <<"1">>, <<"1">> >> >>
OpsB == << <<"grayscale">>, <<"flip_horizontal">> >>
OpsC == << <<"scale_in", <<"4">>, <<"3">>, <<"T", "r", "u", "e">> >> >>
OpsBad == << <<"grayscale">>, <<"frobnicate">> >>

\* A callable step (see Callable).
Transpose == <<"<function>", <<"t">> >>

\* Four steps whose order matters, a step with too few parameters and a step
\* with a parameter that is no number.
OpsChain == << <<"resize", <<"6">>, <<"4">> >>, <<"crop", <<"1">>, <<"1">>, <<"5">>, <<"3">> >>,
               Transpose,
               <<"scale_in", <<"5", "0", "%">>, <<"N", "o", "n", "e">>,
                 <<"F", "a", "l", "s", "e">> >> >>
OpsArity == << <<"grayscale">>, <<"crop", <<"1">>, <<"2">> >> >>
OpsValue == << <<"resize", <<"x">>, <<"1">> >> >>

L1 == <<"1">>
L2 == <<"2">>
L9 == <<"9">>
SrcS == <<"s">>

\* settings["IMAGE_PROCESS"]: derivative name -> specification.
IMAGE_PROCESS ==
    [n \in { <<"c">>, <<"i">>, <<"r">>, <<"m">>, <<"u">>, <<"w">>, <<"p">>,
             <<"q">>, <<"y">>, <<"e">>, <<"n">>, <<"t">>, <<"k">>, <<"b">>, <<"o">>,
             <<"g">>, <<"a">>, <<"v">>, <<"c", "-", "1">> } |->
       CASE n = <<"c">> -> PyList(OpsA)
         [] n = <<"c", "-", "1">> -> PyList(OpsB)
         [] n = <<"o">> -> PyList(<< >>)
         [] n = <<"g">> -> PyList(OpsChain)
         [] n = <<"a">> -> PyList(OpsArity)
         [] n = <<"v">> -> PyList(OpsValue)
         [] n = <<"b">> -> PyList(OpsBad)
         [] n = <<"i">> -> PyDict([type |-> "image", ops |-> OpsB])
         [] n = <<"r">> -> PyDict([type |-> "responsive-image",
                                   srcset |-> << <<L1, OpsA>>, <<L2, OpsB>> >>,
                                   default |-> PyStr(L2)])
         [] n = <<"m">> -> PyDict([type |-> "responsive-image",
                                   sizes |-> <<"1", "0", "0", "v", "w">>,
                                   srcset |-> << <<L1, OpsA>>, <<L2, OpsB>> >>,
                                   default |-> PyList(OpsC)])
         [] n = <<"u">> -> PyDict([type |-> "responsive-image",
                                   srcset |-> << <<L1, OpsA>>, <<L2, OpsB>> >>,
                                   default |-> PyStr(L9)])
         [] n = <<"w">> -> PyDict([type |-> "responsive-image",
                                   srcset |-> << <<L1, OpsA>>, <<L1, OpsB>> >>,
                                   default |-> PyStr(L1)])
         [] n = <<"p">> -> PyDict([type |-> "picture",
                                   sources |-> <<
                                      [name |-> DEFAULT,
                                       media |-> <<"w", "i", "d", "e">>,
                                       sizes |-> <<"1", "0", "0", "v", "w">>,
                                       srcset |-> << <<L1, OpsA>>, <<L2, OpsB>> >>],
                                      [name |-> SrcS,
                                       srcset |-> << <<L1, OpsC>> >>] >>,
                                   default |-> PyTuple(<<DEFAULT, PyStr(L2)>>)])
         [] n = <<"q">> -> PyDict([type |-> "picture",
                                   sources |-> <<
                                      [name |-> DEFAULT,
                                       media |-> <<"w", "i", "d", "e">>,
                                       srcset |-> << <<L1, OpsA>>, <<L2, OpsB>> >>],
                                      [name |-> SrcS,
                                       srcset |-> << <<L1, OpsC>> >>] >>,
                                   default |-> PyTuple(<<SrcS, PyList(OpsB)>>)])
         [] n = <<"y">> -> PyDict([type |-> "picture",
                                   sources |-> <<
                                      [name |-> DEFAULT,
                                       srcset |-> << <<L1, OpsA>> >>] >>,
                                   default |-> PyTuple(<<SrcS, PyStr(L1)>>)])
         [] n = <<"e">> -> PyDict([type |-> "picture",
                                   sources |-> <<
                                      [name |-> DEFAULT,
                                       srcset |-> << <<L1, OpsA>> >>],
                                      [name |-> SrcS,
                                       sizes |-> <<"1", "0", "0", "v", "w">>,
                                       srcset |-> << >>] >>,
                                   default |-> PyTuple(<<DEFAULT, PyStr(L1)>>)])
         [] n = <<"n">> -> PyDict([ops |-> OpsA])
         [] n = <<"t">> -> PyTuple(OpsA)
         [] n = <<"k">> -> PyDict([type |-> "thumbnail", ops |-> OpsA])]

\* Per-behaviour settings a fragment is processed under.
\*   add_class, class_prefix : IMAGE_PROCESS_ADD_CLASS, IMAGE_PROCESS_CLASS_PREFIX
\*   process_dir             : IMAGE_PROCESS_DIR
\*   siteurl                 : SITEURL, or None when the key is absent
\*   static_content          : the generated-content records, in dict order,
\*                             each [save_as, source_path, output_path]
\*   force, copy_exif        : the values IMAGE_PROCESS_FORCE and
\*                             IMAGE_PROCESS_COPY_EXIF_TAGS take over the calls
DefaultSettings ==
    [add_class |-> TRUE, class_prefix |-> <<MARK>>, process_dir |-> IMAGE_PROCESS_DIR,
     siteurl |-> <<"/", "/">>, static_content |-> << >>,
     force |-> {FALSE}, copy_exif |-> {FALSE}]

\* ------------------------------------------------------------------------
\* compute_paths
\* ------------------------------------------------------------------------

\* The first record of static_content whose save_as is a suffix of the
\* decoded reference path, an empty save_as included.
MatchingContentOrEmpty(img_src_path, static_content) ==
    First({k \in 1..Len(static_content) : EndsWith(img_src_path, static_content[k].save_as)})

\* The first record of static_content whose save_as is non-empty and a
\* suffix of the decoded reference path; 0 when there is none.
MatchingContent(img_src_path, static_content) ==
    First({k \in 1..Len(static_content) :
              /\ static_content[k].save_as # Empty
              /\ EndsWith(img_src_path, static_content[k].save_as)})

\* url2pathname(site_url.path[1:]), None when SITEURL is not set.
SiteUrlPath(siteurl) ==
    IF siteurl = None THEN None ELSE Url2Pathname(Drop(UrlPath(siteurl), 1))

\* src_path of the fallback branch.
SrcPath(img_src_path, site_url_path) ==
    IF site_url_path # None /\ site_url_path # Empty
    THEN LStrip(PartitionAfter(img_src_path, site_url_path), "/")
    ELSE LStrip(img_src_path, "/")

\* The Path tuple, from the record found in static_content (contobj, when
\* m # 0) or from src_path.
PathTuple(base_url, filename, process_dir, derivative, m, contobj, src_path) ==
    IF m # 0
    THEN [base_url |-> base_url,
          source |-> contobj.source_path,
          base_path |-> Join(contobj.output_path,
                             <<Dirname(contobj.save_as), process_dir, derivative>>),
          filename |-> filename]
    ELSE [base_url |-> base_url,
          source |-> Join2(PATH, src_path),
          base_path |-> Join(OUTPUT_PATH,
                             <<Dirname(src_path), Join2(process_dir, derivative)>>),
          filename |-> filename]

PathsFrom(src, set, derivative, img_src_path, m) ==
    PathTuple(Join2(Dirname(src), Pathname2Url(Join2(set.process_dir, derivative))),
              Basename(img_src_path), set.process_dir, derivative, m,
              IF m # 0 THEN set.static_content[m] ELSE None,
              SrcPath(img_src_path, SiteUrlPath(set.siteurl)))

PathsOf(src, set, derivative, img_src_path) ==
    PathsFrom(src, set, derivative, img_src_path,
              MatchingContent(img_src_path, set.static_content))

\* Paths whose base_url is built on the path of the reference, without its
\* scheme and network location.
ComputePathsFromPath(src, set, derivative) ==
    PathsOf(UrlPath(src), set, derivative, Url2Pathname(LStrip(UrlPath(src), "/")))

compute_paths(src, set, derivative) ==
    PathsOf(src, set, derivative, Url2Pathname(LStrip(UrlPath(src), "/")))

\* ------------------------------------------------------------------------
\* Image operations: convert_box and scale
\* ------------------------------------------------------------------------

\* The number a sequence of decimal digits denotes.
RECURSIVE Decimal(_)
Decimal(ds) ==
    IF ds = Empty THEN 0
    ELSE 10 * Decimal(SubSeq(ds, 1, Len(ds) - 1))
         + (CHOOSE v \in 0..9 : <<"0", "1", "2", "3", "4", "5", "6", "7", "8", "9">>[v + 1]
                                   = ds[Len(ds)])

\* float(s) for the numerals of the model: an optional sign, then digits
\* with at most one ".".  A float is the fraction n/d with d > 0; a call
\* that raises carries the name of its exception.
ParseFloat(s) ==
    LET signed == s # Empty /\ Head(s) \in {"-", "+"}
        body == IF signed THEN Tail(s) ELSE s
        dot == First({j \in 1..Len(body) : body[j] = "."})
        whole == IF dot = 0 THEN body ELSE SubSeq(body, 1, dot - 1)
        frac == IF dot = 0 THEN Empty ELSE Drop(body, dot)
    IN IF \/ \E j \in 1..Len(whole) : whole[j] \notin Digits
          \/ \E j \in 1..Len(frac) : frac[j] \notin Digits
          \/ whole \o frac = Empty
       THEN [exc |-> "ValueError", n |-> 0, d |-> 1]
       ELSE [exc |-> "none",
             n |-> (IF signed /\ Head(s) = "-" THEN 0 - 1 ELSE 1) * Decimal(whole \o frac),
             d |-> Decimal(<<"1">> \o [j \in 1..Len(frac) |-> "0"])]

\* One coordinate of convert_box: dim * float(x[:-1]) / 100.0 for a
\* percentage, float(x) otherwise; x[-1] raises IndexError on an empty string.
Coordinate(dim, x) ==
    IF x = Empty THEN [exc |-> "IndexError", n |-> 0, d |-> 1]
    ELSE IF x[Len(x)] = "%"
    THEN LET p == ParseFloat(SubSeq(x, 1, Len(x) - 1))
         IN IF p.exc # "none" THEN p ELSE [exc |-> "none", n |-> dim * p.n, d |-> p.d * 100]
    ELSE ParseFloat(x)

\* convert_box with top and bottom resolved against the width.
ConvertBoxOnWidth(image, top, left, right, bottom) ==
    LET t == Coordinate(image.width, top)
        l == Coordinate(image.width, left)
        r == Coordinate(image.width, right)
        b == Coordinate(image.width, bottom)
    IN [exc |-> IF t.exc # "none" THEN t.exc
                ELSE IF l.exc # "none" THEN l.exc
                ELSE IF r.exc # "none" THEN r.exc
                ELSE b.exc,
        v |-> IF t.exc = "none" /\ l.exc = "none" /\ r.exc = "none" /\ b.exc = "none"
              THEN <<t, l, r, b>> ELSE << >>]

\* The tuple returned, or the exception of the first coordinate that raises.
convert_box(image, top, left, right, bottom) ==
    LET t == Coordinate(image.height, top)
        l == Coordinate(image.width, left)
        r == Coordinate(image.width, right)
        b == Coordinate(image.height, bottom)
    IN [exc |-> IF t.exc # "none" THEN t.exc
                ELSE IF l.exc # "none" THEN l.exc
                ELSE IF r.exc # "none" THEN r.exc
                ELSE b.exc,
        v |-> IF t.exc = "none" /\ l.exc = "none" /\ r.exc = "none" /\ b.exc = "none"
              THEN <<t, l, r, b>> ELSE << >>]

\* The string "None".
NoneStr == <<"N", "o", "n", "e">>

\* w or h of scale as a ratio of the image's dimension.
Ratio(x, dim) ==
    IF x = NoneStr THEN [exc |-> "none", n |-> 1, d |-> 1]
    ELSE IF x = Empty THEN [exc |-> "IndexError", n |-> 0, d |-> 1]
    ELSE IF x[Len(x)] = "%" THEN Coordinate(1, x)
    ELSE LET p == ParseFloat(x)
         IN IF p.exc # "none" THEN p
            ELSE IF dim = 0 THEN [exc |-> "ZeroDivisionError", n |-> 0, d |-> 1]
            ELSE [exc |-> "none", n |-> p.n, d |-> p.d * dim]

\* min and max of two floats.
Min(x, y) == IF x.n * y.d <= y.n * x.d THEN x ELSE y
Max(x, y) == IF x.n * y.d <= y.n * x.d THEN y ELSE x

\* int(scale * dim): truncation towards zero.
IntOf(x, dim) ==
    IF x.n >= 0 THEN (x.n * dim) \div x.d ELSE 0 - ((0 - x.n * dim) \div x.d)

\* (int(left), int(top), int(right), int(bottom)) for the tuple (top, left,
\* right, bottom) convert_box returned.
CropBox(box) ==
    IF box.exc # "none" THEN [exc |-> box.exc, v |-> << >>]
    ELSE [exc |-> "none",
          v |-> <<IntOf(box.v[2], 1), IntOf(box.v[1], 1), IntOf(box.v[3], 1),
                  IntOf(box.v[4], 1)>>]

\* crop with its parameters taken as top, left, right, bottom.
CropTopFirst(i, left, top, right, bottom) == CropBox(convert_box(i, left, top, right, bottom))

\* crop(i, left, top, right, bottom): the box (left, upper, right, lower)
\* given to i.crop.
crop(i, left, top, right, bottom) == CropBox(convert_box(i, top, left, right, bottom))

\* upscale in [0, "0", "False", False]; the values are Python values
\* [py, v], v being the repr of an int or a bool.
NoUpscale(upscale) ==
    \/ upscale.py = "int" /\ upscale.v = <<"0">>
    \/ upscale.py = "bool" /\ upscale.v = <<"F", "a", "l", "s", "e">>
    \/ upscale.py = "str" /\ upscale.v \in {<<"0">>, <<"F", "a", "l", "s", "e">>}

\* The factor inside the requested box where scale takes the one outside,
\* and the other way round.
ScaledInverted(i, w, h, upscale, inside) ==
    IF w.exc # "none" THEN [exc |-> w.exc, v |-> << >>]
    ELSE IF h.exc # "none" THEN [exc |-> h.exc, v |-> << >>]
    ELSE LET factor == IF inside THEN Max(w, h) ELSE Min(w, h)
             clamped == IF NoUpscale(upscale)
                        THEN Min(factor, [exc |-> "none", n |-> 1, d |-> 1])
                        ELSE factor
         IN [exc |-> "none", v |-> <<IntOf(clamped, i.width), IntOf(clamped, i.height)>>]

\* scale after w and h were made ratios: the size given to i.resize.
Scaled(i, w, h, upscale, inside) ==
    IF w.exc # "none" THEN [exc |-> w.exc, v |-> << >>]
    ELSE IF h.exc # "none" THEN [exc |-> h.exc, v |-> << >>]
    ELSE LET factor == IF inside THEN Min(w, h) ELSE Max(w, h)
             clamped == IF NoUpscale(upscale)
                        THEN Min(factor, [exc |-> "none", n |-> 1, d |-> 1])
                        ELSE factor
         IN [exc |-> "none", v |-> <<IntOf(clamped, i.width), IntOf(clamped, i.height)>>]

scale(i, w, h, upscale, inside) ==
    Scaled(i, Ratio(w, i.width), Ratio(h, i.height), upscale, inside)

\* ------------------------------------------------------------------------
\* The filesystem and process_image
\* ------------------------------------------------------------------------

VARIABLES
    fragment,     \* the input fragment: a sequence of groups
    settings,     \* the settings of the behaviour (see DefaultSettings)
    runs,         \* how many times the site generator calls the function
                  \* on the fragment
    srcFiles,     \* source path -> [state, mtime]; other paths do not exist
    dst0,         \* what a destination never written in this behaviour is:
                  \* "absent", "stale" (mtime 0) or "fresh" (mtime 1)
    dstFiles,     \* destination path -> [mtime, content], once written
    now,          \* the clock that stamps writes
    pc,           \* "idle", "scanning", "returned", "raised"
    call,         \* the current call: [force, copy_exif, no]
    soup,         \* the element tree of the current call
    pos,          \* how many elements of the scan list were processed
    log,          \* the process_image calls of the current call, in call
                  \* order: [elem, job, before, outcome, exc]
    result,       \* the HTML returned by the last finished call, or None
    exc,          \* the exception the last finished call raised, or "none"
    exifInstance, \* ExifTool._instance is not None
    prev,         \* the call before the current one:
                  \* [force, result, exc, no, writes]
    quiet,        \* calls begun since a source was last modified
    op            \* an image operation on its own: the image i, the
                  \* parameters args of the step, the function called
                  \* (done), upscale, inside and what it gave (out)

vars == <<fragment, settings, runs, srcFiles, dst0, dstFiles, now, pc, call, soup,
          pos, log, result, exc, exifInstance, prev, quiet, op>>

\* The names in basic_ops.
BasicOpNames == {"crop", "flip_horizontal", "flip_vertical", "grayscale", "resize",
                 "rotate", "scale_in", "scale_out", "blur", "contour", "detail",
                 "edge_enhance", "edge_enhance_more", "emboss", "find_edges",
                 "smooth", "smooth_more", "sharpen"}

\* What a file holds that no call of this behaviour wrote.
OldContent ==
    [source |-> <<"?">>, ops |-> << >>, size |-> [width |-> 0, height |-> 0], tags |-> FALSE]

\* os.path.exists(path) for a destination
Exists(dst, path) == path \in DOMAIN dst \/ dst0 # "absent"

\* os.path.getmtime(path) for a destination that exists
GetMtime(dst, path) ==
    IF path \in DOMAIN dst THEN dst[path].mtime
    ELSE IF dst0 = "stale" THEN 0 ELSE 1

Content(dst, path) == IF path \in DOMAIN dst THEN dst[path].content ELSE OldContent

\* "ok", "corrupt" (Pillow cannot identify it) or "missing"
SourceState(path) == IF path \in DOMAIN srcFiles THEN srcFiles[path].state ELSE "missing"

\* The image Image.open gives for a source file: every source is 4x2.
Opened == [width |-> 4, height |-> 2]

\* A step that is a callable and not a string: its first word is
\* "<function>", which no string step of the model starts with. The one
\* callable of the model transposes the image.
Callable(step) == step[1] = "<function>"

\* The number of parameters after the image of each function of basic_ops
\* (inside and f are bound by functools.partial).
Arity(name) ==
    CASE name = "crop" -> 4
      [] name = "resize" -> 2
      [] name \in {"scale_in", "scale_out"} -> 3
      [] name = "rotate" -> 1
      [] OTHER -> 0

\* The image of the size given, or the exception of the step; Pillow
\* refuses a size that is not positive in both directions.
Sized(r) ==
    IF r.exc # "none" THEN [exc |-> r.exc, i |-> Opened]
    ELSE IF r.v[1] <= 0 \/ r.v[2] <= 0 THEN [exc |-> "ValueError", i |-> Opened]
    ELSE [exc |-> "none", i |-> [width |-> r.v[1], height |-> r.v[2]]]

\* The region of a box (left, upper, right, lower).
Cropped(box) ==
    IF box.exc # "none" THEN box
    ELSE [exc |-> "none", v |-> <<box.v[3] - box.v[1], box.v[4] - box.v[2]>>]

\* resize(i, w, h): the size (int(w), int(h)) of convert_box(i, "0", "0", w, h).
ResizeBox(box) ==
    IF box.exc # "none" THEN [exc |-> box.exc, v |-> << >>]
    ELSE [exc |-> "none", v |-> <<IntOf(box.v[3], 1), IntOf(box.v[4], 1)>>]

resize(i, w, h) == ResizeBox(convert_box(i, <<"0">>, <<"0">>, w, h))

\* rotate(i, degrees) with expand: int(degrees) raises ValueError unless
\* degrees is an integer literal; the size is kept by a multiple of 180 and
\* transposed by the other multiples of 90 (the angles of the model).
Rotated(i, p) ==
    IF p.exc # "none" \/ p.d # 1 THEN [exc |-> "ValueError", v |-> << >>]
    ELSE IF p.n % 180 = 0 THEN [exc |-> "none", v |-> <<i.width, i.height>>]
    ELSE [exc |-> "none", v |-> <<i.height, i.width>>]

rotate(i, degrees) == Rotated(i, ParseFloat(degrees))

\* One step of the loop over image[2] on the image i: step(i) for a
\* callable, basic_ops[elems[0]](i, *elems[1:]) otherwise, which raises
\* KeyError for an unknown name, TypeError for a wrong number of parameters
\* and the exception of the function called.
ApplyStep(i, step) ==
    IF Callable(step) THEN [exc |-> "none", i |-> [width |-> i.height, height |-> i.width]]
    ELSE IF step[1] \notin BasicOpNames THEN [exc |-> "KeyError", i |-> i]
    ELSE IF Len(step) - 1 # Arity(step[1]) THEN [exc |-> "TypeError", i |-> i]
    ELSE CASE step[1] = "crop" -> Sized(Cropped(crop(i, step[2], step[3], step[4], step[5])))
           [] step[1] = "resize" -> Sized(resize(i, step[2], step[3]))
           [] step[1] \in {"scale_in", "scale_out"} ->
                Sized(scale(i, step[2], step[3], [py |-> "str", v |-> step[4]],
                            step[1] = "scale_in"))
           [] step[1] = "rotate" -> Sized(rotate(i, step[2]))
           [] OTHER -> [exc |-> "none", i |-> i]

\* The steps applied last first.
RECURSIVE ApplyOpsBackwards(_, _, _)
AppliedBackwards(r, i, done, ops) ==
    IF r.exc # "none" THEN [applied |-> done, exc |-> r.exc, i |-> i]
    ELSE ApplyOpsBackwards(r.i, Append(done, ops[Len(ops)]), SubSeq(ops, 1, Len(ops) - 1))

ApplyOpsBackwards(i, done, ops) ==
    IF ops = << >> THEN [applied |-> done, exc |-> "none", i |-> i]
    ELSE AppliedBackwards(ApplyStep(i, ops[Len(ops)]), i, done, ops)

RECURSIVE ApplyOps(_, _, _)
\* The first step of ops gave r: it is raised, or the loop goes on.
Applied(r, i, done, ops) ==
    IF r.exc # "none" THEN [applied |-> done, exc |-> r.exc, i |-> i]
    ELSE ApplyOps(r.i, Append(done, Head(ops)), Tail(ops))

\* The loop over image[2] from the image i: the steps applied so far, the
\* image they gave and the exception of the step that raised.
ApplyOps(i, done, ops) ==
    IF ops = << >> THEN [applied |-> done, exc |-> "none", i |-> i]
    ELSE Applied(ApplyStep(i, Head(ops)), i, done, ops)

\* The condition with the mtimes compared by >= : a destination as old as its
\* source is rebuilt.
ShouldBuildNotOlder(source, destination, force, dst) ==
    IF force \/ ~Exists(dst, destination) THEN "build"
    ELSE IF SourceState(source) = "missing" THEN "raise"
    ELSE IF srcFiles[source].mtime >= GetMtime(dst, destination) THEN "build"
    ELSE "skip"

\* The condition of process_image: "build", "skip", or "raise" when
\* os.path.getmtime(source) raises FileNotFoundError.
ShouldBuild(source, destination, force, dst) ==
    IF force \/ ~Exists(dst, destination) THEN "build"
    ELSE IF SourceState(source) = "missing" THEN "raise"
    ELSE IF srcFiles[source].mtime > GetMtime(dst, destination) THEN "build"
    ELSE "skip"

\* A save that leaves the file's modification time at that of the oldest file.
SaveUnstamped(dst, source, destination, run) ==
    [q \in DOMAIN dst \cup {destination} |->
        IF q = destination
        THEN [mtime |-> 0,
              content |-> [source |-> source, ops |-> run.applied, size |-> run.i,
                          tags |-> exifInstance]]
        ELSE dst[q]]

\* A save that does not replace a file this behaviour has already written.
SaveOnce(dst, source, destination, run) ==
    [q \in DOMAIN dst \cup {destination} |->
        IF q = destination /\ q \notin DOMAIN dst
        THEN [mtime |-> now,
              content |-> [source |-> source, ops |-> run.applied, size |-> run.i,
                          tags |-> exifInstance]]
        ELSE dst[q]]

\* i.save(destination) and ExifTool.copy_tags(source, destination)
Save(dst, source, destination, run) ==
    [q \in DOMAIN dst \cup {destination} |->
        IF q = destination
        THEN [mtime |-> now,
              content |-> [source |-> source, ops |-> run.applied, size |-> run.i,
                          tags |-> exifInstance]]
        ELSE dst[q]]

\* The write made before the steps are applied.
BuildThenApply(source, destination, dst, state, run) ==
    IF state # "ok" THEN [dst |-> dst, outcome |-> "abandoned", exc |-> "none"]
    ELSE IF run.exc # "none"
    THEN [dst |-> Save(dst, source, destination, run), outcome |-> "raised", exc |-> run.exc]
    ELSE [dst |-> Save(dst, source, destination, run),
          outcome |-> "written", exc |-> "none"]

\* The body of the if: try_open_image, the ops, the write.
Build(source, destination, dst, state, run) ==
    IF state # "ok" THEN [dst |-> dst, outcome |-> "abandoned", exc |-> "none"]
    ELSE IF run.exc # "none" THEN [dst |-> dst, outcome |-> "raised", exc |-> run.exc]
    ELSE [dst |-> Save(dst, source, destination, run),
          outcome |-> "written", exc |-> "none"]

Gated(source, destination, ops, dst, gate) ==
    CASE gate = "raise" -> [dst |-> dst, outcome |-> "raised", exc |-> "FileNotFoundError"]
      [] gate = "skip" -> [dst |-> dst, outcome |-> "skipped", exc |-> "none"]
      [] OTHER -> Build(source, destination, dst, SourceState(source), ApplyOps(Opened, << >>, ops))

Unquoted(source, destination, ops, force, dst) ==
    Gated(source, destination, ops, dst, ShouldBuild(source, destination, force, dst))

\* process_image(image, settings) on the destination files dst:
\* [dst, outcome, exc], outcome one of "skipped", "abandoned", "written", "raised".
process_image(image, force, dst) ==
    Unquoted(Unquote(image.source), Unquote(image.destination), image.ops, force, dst)

\* What a process_image call finds on the disk: whether the destination
\* exists, its mtime, the state of the source and its mtime (-1: no file).
Found(source, destination, dst) ==
    [exists |-> Exists(dst, destination),
     dmtime |-> IF Exists(dst, destination) THEN GetMtime(dst, destination) ELSE -1,
     sstate |-> SourceState(source),
     smtime |-> IF source \in DOMAIN srcFiles THEN srcFiles[source].mtime ELSE -1]

\* The record of one process_image call, r being what it returned.
Entry(job, dst, r) ==
    [elem |-> 0, job |-> job,
     before |-> Found(Unquote(job.source), Unquote(job.destination), dst),
     outcome |-> r.outcome, exc |-> r.exc]

\* The process_image calls of one element, in call order, until one raises:
\* [dst, log, exc].
RECURSIVE RunJobs(_, _, _, _)

Ran(jobs, force, dst, done, r) ==
    IF r.exc # "none"
    THEN [dst |-> r.dst, exc |-> r.exc, log |-> Append(done, Entry(Head(jobs), dst, r))]
    ELSE RunJobs(Tail(jobs), force, r.dst, Append(done, Entry(Head(jobs), dst, r)))

RunJobs(jobs, force, dst, done) ==
    IF jobs = << >> THEN [dst |-> dst, log |-> done, exc |-> "none"]
    ELSE Ran(jobs, force, dst, done, process_image(Head(jobs), force, dst))

\* ------------------------------------------------------------------------
\* The element tree
\* ------------------------------------------------------------------------

\* An element: its tag, its attributes (None when absent; class is a sequence
\* of tokens) and its children.  A fragment is a sequence of groups, a group
\* an element whose children are img and source elements.
Element(tag, class, src) ==
    [tag |-> tag, class |-> class, src |-> src, srcset |-> None,
     sizes |-> None, media |-> None, kids |-> << >>]

Img(class, src) == Element("img", class, src)

Group(tag, kids) ==
    [tag |-> tag, class |-> None, src |-> None, srcset |-> None,
     sizes |-> None, media |-> None, kids |-> kids]

Range(f) == {f[i] : i \in DOMAIN f}

\* The characters of IMAGE_PROCESS_REGEX's class [-a-zA-Z0-9_].
NameChars == Letters \cup Digits \cup {"-", "_"}

\* IMAGE_PROCESS_REGEX.search(token)
RegexSearch(token) ==
    \E i \in 1..(Len(token) - 1) : token[i] = MARK /\ token[i + 1] \in NameChars

\* The elements soup.find_all("img", class_=IMAGE_PROCESS_REGEX) selects among
\* the children of a group: their positions.
Triggers(group) ==
    {k \in 1..Len(group.kids) :
        /\ group.kids[k].tag = "img"
        /\ group.kids[k].class # None
        /\ \E i \in 1..Len(group.kids[k].class) : RegexSearch(group.kids[k].class[i])}

\* The scan list of harvest_images_in_fragment: the groups that hold a
\* selected img, in document order (the fragments of the model hold at most
\* one selected img per group).
ScanList(tree) ==
    LET F[i \in 0..Len(tree)] ==
          IF i = 0 THEN << >>
          ELSE IF Triggers(tree[i]) # {} THEN Append(F[i - 1], i) ELSE F[i - 1]
    IN F[Len(tree)]

TriggerOf(group) == First(Triggers(group))

\* The first class token that starts with "image-process-": its position in
\* the class list, 0 when there is none.
MarkerIndex(class) ==
    First({i \in 1..Len(class) : class[i] # Empty /\ class[i][1] = MARK})

\* list.remove(x), the first element equal to x being at position k.
RemoveAt(list, k) ==
    IF k = 0 THEN list ELSE SubSeq(list, 1, k - 1) \o SubSeq(list, k + 1, Len(list))

RemoveFirst(list, x) == RemoveAt(list, First({i \in 1..Len(list) : list[i] = x}))

\* A rewriting that appends the prefixed name and leaves the marker in place.
RewrittenKeepingMarker(class, c, set, removed) ==
    IF ~set.add_class
    THEN (IF Len(removed) = 0 THEN None ELSE removed)
    ELSE IF set.class_prefix # <<MARK>>
         THEN Append(class, set.class_prefix \o Drop(c, 1))
         ELSE class

\* The class attribute once the marker c is found, removed being the class
\* list without c (the body of the for loop over img["class"]).
Rewritten(class, c, set, removed) ==
    IF ~set.add_class
    THEN (IF Len(removed) = 0 THEN None ELSE removed)
    ELSE IF set.class_prefix # <<MARK>>
         THEN Append(removed, set.class_prefix \o Drop(c, 1))
         ELSE class

RewriteClass(class, c, set) == Rewritten(class, c, set, RemoveFirst(class, c))

\* ------------------------------------------------------------------------
\* process_img_tag, build_srcset
\* ------------------------------------------------------------------------

Job(source, destination, ops) ==
    [source |-> source, destination |-> destination, ops |-> ops]

\* What the dispatch of one element yields: the group as rewritten, the
\* process_image calls in call order, and the exception raised after them
\* ("none" when the dispatch ends normally).
Outcome(group, jobs, e) == [group |-> group, jobs |-> jobs, exc |-> e]

SetKid(group, k, kid) == [group EXCEPT !.kids[k] = kid]

\* process_img_tag queuing the url of the derivative as its destination.
ImgTagToUrl(group, t, path, process) ==
    Outcome(SetKid(group, t, [group.kids[t] EXCEPT
                                 !.src = Join2(path.base_url, path.filename)]),
            << Job(path.source, Join2(path.base_url, path.filename),
                   IF process.py = "list" THEN process.v ELSE process.v.ops) >>,
            "none")

\* process_img_tag once path and process are computed.
ImgTag(group, t, path, process) ==
    IF process.py # "list" /\ "ops" \notin DOMAIN process.v
    THEN Outcome(SetKid(group, t, [group.kids[t] EXCEPT
                                      !.src = Join2(path.base_url, path.filename)]),
                 << >>, "KeyError")
    ELSE Outcome(SetKid(group, t, [group.kids[t] EXCEPT
                                      !.src = Join2(path.base_url, path.filename)]),
                 << Job(path.source, Join2(path.base_path, path.filename),
                        IF process.py = "list" THEN process.v ELSE process.v.ops) >>,
                 "none")

process_img_tag(group, t, set, derivative) ==
    ImgTag(group, t, compute_paths(group.kids[t].src, set, derivative),
           IMAGE_PROCESS[derivative])

\* A candidate whose path is never quoted.
FormatUnquoted(path, condition) == path \o <<" ">> \o condition

HasSpecial(path) == \E i \in 1..Len(path) : path[i] = " " \/ path[i] = ","

format_srcset_element(path, condition) ==
    (IF HasSpecial(path) THEN Quote(path) ELSE path) \o <<" ">> \o condition

\* ", ".join(list)
RECURSIVE JoinComma(_)
JoinComma(list) ==
    IF list = << >> THEN Empty
    ELSE IF Len(list) = 1 THEN list[1]
    ELSE list[1] \o <<",", " ">> \o JoinComma(Tail(list))

\* default_name of build_srcset
DefaultName(default) ==
    CASE default.py = "str" -> default.v
      [] default.py = "list" -> DEFAULT
      [] OTHER -> Empty

\* The process_image call for a default given as an operation list.
DefaultJobs(path, default) ==
    IF default.py = "list"
    THEN << Job(path.source, Join(path.base_path, <<DEFAULT, path.filename>>), default.v) >>
    ELSE << >>

\* The loop over process["srcset"]: the candidates and the process_image calls.
SrcsetCandidates(path, entries) ==
    [i \in 1..Len(entries) |->
        format_srcset_element(Join(path.base_url, <<entries[i][1], path.filename>>),
                              entries[i][1])]

SrcsetJobs(path, entries) ==
    [i \in 1..Len(entries) |->
        Job(path.source, Join(path.base_path, <<entries[i][1], path.filename>>),
            entries[i][2])]

\* The img as build_srcset leaves it.
SrcsetImg(img, path, process, default_name, srcset) ==
    [img EXCEPT
       !.src = Join(path.base_url, <<default_name, path.filename>>),
       !.sizes = IF "sizes" \in DOMAIN process THEN process.sizes ELSE @,
       !.srcset = IF Len(srcset) > 0 THEN JoinComma(srcset) ELSE @]

\* build_srcset calling process_image for the default after the srcset.
SrcsetDefaultLast(group, t, path, process) ==
    Outcome(SetKid(group, t,
                   SrcsetImg(group.kids[t], path, process,
                             DefaultName(process.default),
                             SrcsetCandidates(path, process.srcset))),
            SrcsetJobs(path, process.srcset) \o DefaultJobs(path, process.default),
            "none")

\* build_srcset once path and process are computed.
Srcset(group, t, path, process) ==
    IF "default" \notin DOMAIN process
    THEN Outcome(group, << >>, "KeyError")
    ELSE IF "srcset" \notin DOMAIN process
    THEN Outcome(group, DefaultJobs(path, process.default), "KeyError")
    ELSE Outcome(SetKid(group, t,
                        SrcsetImg(group.kids[t], path, process,
                                  DefaultName(process.default),
                                  SrcsetCandidates(path, process.srcset))),
                 DefaultJobs(path, process.default) \o SrcsetJobs(path, process.srcset),
                 "none")

build_srcset(group, t, set, derivative) ==
    Srcset(group, t, compute_paths(group.kids[t].src, set, derivative),
           IMAGE_PROCESS[derivative].v)

\* ------------------------------------------------------------------------
\* convert_div_to_picture_tag, process_picture
\* ------------------------------------------------------------------------

\* A source of the specification with the url found for it: the fields the
\* first loop of both functions adds (url, filename, base_url, base_path),
\* and the position of the element the url was taken from (0: the img).
SourceRecord(spec, url, from, sp, base_url) ==
    [spec |-> spec, name |-> spec.name, url |-> url, from |-> from,
     filename |-> sp[2], base_url |-> base_url,
     base_path |-> Join2(OUTPUT_PATH, Drop(base_url, 1))]

SourceInfo(spec, url, from, process_dir, derivative) ==
    SourceRecord(spec, url, from, Split(url),
                 Join(Dirname(url), <<process_dir, derivative>>))

\* The first child of the group, other than those in `gone`, that is a `tag`
\* element with `name` among its class tokens (and, for an img, with the
\* token "image-process"); 0 when there is none.  The img that triggered the
\* dispatch carries no source name in the fragments of the model.
FindNamed(group, tag, name, gone, t) ==
    First({k \in 1..Len(group.kids) :
              /\ k \notin gone /\ k # t
              /\ group.kids[k].tag = tag
              /\ group.kids[k].class # None
              /\ name \in Range(group.kids[k].class)
              /\ (tag = "img" => GENERIC \in Range(group.kids[k].class))})

\* The positions of the elements the sources took their url from.
Gone(infos) == {infos[i].from : i \in 1..Len(infos)} \ {0}

\* The first loop over the sources: [infos, exc].  missing is the exception
\* of a source for which no element is found.
RECURSIVE ResolveSources(_, _, _, _, _, _, _, _)

Resolved(specs, group, t, tag, process_dir, derivative, missing, infos, k) ==
    IF k = 0 THEN [infos |-> infos, exc |-> missing]
    ELSE IF group.kids[k].src = None THEN [infos |-> infos, exc |-> "KeyError"]
    ELSE ResolveSources(Tail(specs), group, t, tag, process_dir, derivative, missing,
             Append(infos, SourceInfo(Head(specs), group.kids[k].src, k, process_dir, derivative)))

ResolveSources(specs, group, t, tag, process_dir, derivative, missing, infos) ==
    IF specs = << >> THEN [infos |-> infos, exc |-> "none"]
    ELSE IF Head(specs).name = DEFAULT
    THEN ResolveSources(Tail(specs), group, t, tag, process_dir, derivative, missing,
             Append(infos, SourceInfo(Head(specs), group.kids[t].src, 0, process_dir, derivative)))
    ELSE Resolved(specs, group, t, tag, process_dir, derivative, missing, infos,
                  FindNamed(group, tag, Head(specs).name, Gone(infos), t))

\* The handling of the specification's default: the exception raised, the
\* process_image call for a default given as an operation list, and the new
\* src of the img (None when default is None).
\* The default built from the source's url but not under the source's name.
DefaultVariantUnnamed(name, item, ds, item_name) ==
    [exc |-> "none",
     jobs |-> IF item.py = "list"
              THEN << Job(Join2(PATH, Drop(ds.url, 1)),
                          Join(ds.base_path, <<item_name, ds.filename>>),
                          item.v) >>
              ELSE << >>,
     src |-> Join(ds.base_url, <<item_name, ds.filename>>)]

DefaultVariant(name, item, ds, item_name) ==
    [exc |-> "none",
     jobs |-> IF item.py = "list"
              THEN << Job(Join2(PATH, Drop(ds.url, 1)),
                          Join(ds.base_path, <<name, item_name, ds.filename>>),
                          item.v) >>
              ELSE << >>,
     src |-> Join(ds.base_url, <<name, item_name, ds.filename>>)]

\* A lookup of the default's source that falls back on the first source.
DefaultFromFirst(name, item, infos, k) ==
    IF item.py \notin {"str", "list"}
    THEN [exc |-> "RuntimeError", jobs |-> << >>, src |-> None]
    ELSE DefaultVariant(name, item, infos[IF k = 0 THEN 1 ELSE k],
                        IF item.py = "str" THEN item.v ELSE DEFAULT)

DefaultFrom(name, item, infos, k) ==
    IF k = 0 THEN [exc |-> "RuntimeError", jobs |-> << >>, src |-> None]
    ELSE IF item.py \notin {"str", "list"}
    THEN [exc |-> "RuntimeError", jobs |-> << >>, src |-> None]
    ELSE DefaultVariant(name, item, infos[k], IF item.py = "str" THEN item.v ELSE DEFAULT)

DefaultOf(default, infos) ==
    IF default.py = "NoneType" THEN [exc |-> "none", jobs |-> << >>, src |-> None]
    ELSE DefaultFrom(default.v[1], default.v[2], infos,
                     First({i \in 1..Len(infos) : infos[i].name = default.v[1]}))

\* The srcset candidates and the process_image calls of one source.
SrcsetOf(info) ==
    [i \in 1..Len(info.spec.srcset) |->
        format_srcset_element(
            Join(info.base_url, <<info.name, info.spec.srcset[i][1], info.filename>>),
            info.spec.srcset[i][1])]

SourceJobs(info) ==
    [i \in 1..Len(info.spec.srcset) |->
        Job(Join2(PATH, Drop(info.url, 1)),
            Join(info.base_path, <<info.name, info.spec.srcset[i][1], info.filename>>),
            info.spec.srcset[i][2])]

RECURSIVE AllSourceJobs(_)
AllSourceJobs(infos) ==
    IF infos = << >> THEN << >> ELSE SourceJobs(Head(infos)) \o AllSourceJobs(Tail(infos))

\* A new <source> without the media and sizes of the specification.
NewSourceBare(spec) == Element("source", None, None)

\* A new <source> carrying the media and sizes of the specification.
NewSource(spec) ==
    [Element("source", None, None) EXCEPT
        !.media = IF "media" \in DOMAIN spec THEN spec.media ELSE None,
        !.sizes = IF "sizes" \in DOMAIN spec THEN spec.sizes ELSE None]

WithSrcset(element, info) ==
    IF Len(info.spec.srcset) > 0
    THEN [element EXCEPT !.srcset = JoinComma(SrcsetOf(info))]
    ELSE element

\* The children of a group without those at the positions in gone, the child
\* at position t replaced by the sequence put.
RECURSIVE Rebuild(_, _, _, _, _)
Rebuild(kids, k, gone, t, put) ==
    IF k > Len(kids) THEN << >>
    ELSE (IF k = t THEN put ELSE IF k \in gone THEN << >> ELSE <<kids[k]>>)
         \o Rebuild(kids, k + 1, gone, t, put)

\* The img with the src the default gives it.
WithDefault(img, def) == IF def.src = None THEN img ELSE [img EXCEPT !.src = def.src]

\* The <picture> convert_div_to_picture_tag wraps the img in.
PictureTag(img, infos, def) ==
    [Element("picture", None, None) EXCEPT
        !.kids = [i \in 1..Len(infos) |-> WithSrcset(NewSource(infos[i].spec), infos[i])]
                 \o << WithDefault(img, def) >>]

\* convert_div_to_picture_tag calling process_image for the default after
\* the sources.
DivDefaultLast(group, t, infos, def) ==
    IF def.exc # "none" THEN Outcome(group, << >>, def.exc)
    ELSE Outcome([group EXCEPT
                    !.kids = Rebuild(group.kids, 1, Gone(infos), t,
                                     << PictureTag(group.kids[t], infos, def) >>)],
                 AllSourceJobs(infos) \o def.jobs, "none")

DivDefault(group, t, infos, def) ==
    IF def.exc # "none" THEN Outcome(group, << >>, def.exc)
    ELSE Outcome([group EXCEPT
                    !.kids = Rebuild(group.kids, 1, Gone(infos), t,
                                     << PictureTag(group.kids[t], infos, def) >>)],
                 def.jobs \o AllSourceJobs(infos), "none")

DivResolved(group, t, process, res) ==
    IF res.exc # "none" THEN Outcome(group, << >>, res.exc)
    ELSE IF "default" \notin DOMAIN process THEN Outcome(group, << >>, "KeyError")
    ELSE DivDefault(group, t, res.infos, DefaultOf(process.default, res.infos))

DivSources(group, t, process, process_dir, derivative) ==
    IF "sources" \notin DOMAIN process THEN Outcome(group, << >>, "KeyError")
    ELSE DivResolved(group, t, process,
                     ResolveSources(process.sources, group, t, "img", process_dir,
                                    derivative,
                                    "KeyError", << >>))

convert_div_to_picture_tag(group, t, set, derivative) ==
    DivSources(group, t, IMAGE_PROCESS[derivative].v, set.process_dir, derivative)

\* A reused <source> that keeps its src and class.
SourceElementUnstripped(group, info) ==
    IF info.from = 0 THEN NewSource(info.spec) ELSE group.kids[info.from]

\* s["element"] of process_picture: a new <source> for the source "default",
\* else the <source> found, without its src and class.
SourceElement(group, info) ==
    IF info.from = 0 THEN NewSource(info.spec)
    ELSE [group.kids[info.from] EXCEPT !.src = None, !.class = None]

\* The <source> elements process_picture inserts before the img: those of the
\* sources with a non-empty srcset, in the order of the specification.
Inserted(group, infos) ==
    LET F[i \in 0..Len(infos)] ==
          IF i = 0 THEN << >>
          ELSE IF Len(infos[i].spec.srcset) > 0
               THEN Append(F[i - 1], WithSrcset(SourceElement(group, infos[i]), infos[i]))
               ELSE F[i - 1]
    IN F[Len(infos)]

PictureDefault(group, t, infos, def) ==
    IF def.exc # "none" THEN Outcome(group, << >>, def.exc)
    ELSE Outcome([group EXCEPT
                    !.kids = Rebuild(group.kids, 1, Gone(infos), t,
                                     Inserted(group, infos)
                                     \o << WithDefault(group.kids[t], def) >>)],
                 def.jobs \o AllSourceJobs(infos), "none")

PictureResolved(group, t, process, res) ==
    IF res.exc # "none" THEN Outcome(group, << >>, res.exc)
    ELSE IF "default" \notin DOMAIN process THEN Outcome(group, << >>, "KeyError")
    ELSE PictureDefault(group, t, res.infos, DefaultOf(process.default, res.infos))

PictureSources(group, t, process, process_dir, derivative) ==
    IF "sources" \notin DOMAIN process THEN Outcome(group, << >>, "KeyError")
    ELSE PictureResolved(group, t, process,
                         ResolveSources(process.sources, group, t, "source", process_dir,
                                        derivative,
                                        "AttributeError", << >>))

process_picture(group, t, set, derivative) ==
    PictureSources(group, t, IMAGE_PROCESS[derivative].v, set.process_dir, derivative)

\* ------------------------------------------------------------------------
\* harvest_images_in_fragment
\* ------------------------------------------------------------------------

\* The dispatch on the specification d of the derivative; marked is the group
\* with the class of its img rewritten.
DispatchOn(marked, tag, has_srcset, t, set, derivative, d) ==
    IF d.py = "list" THEN process_img_tag(marked, t, set, derivative)
    ELSE IF d.py # "dict" THEN Outcome(marked, << >>, "TypeError")
    ELSE IF "type" \notin DOMAIN d.v THEN Outcome(marked, << >>, "RuntimeError")
    ELSE IF d.v.type = "image" THEN process_img_tag(marked, t, set, derivative)
    ELSE IF d.v.type = "responsive-image" /\ ~has_srcset
    THEN build_srcset(marked, t, set, derivative)
    ELSE IF d.v.type = "picture" /\ tag = "div"
    THEN convert_div_to_picture_tag(marked, t, set, derivative)
    ELSE IF d.v.type = "picture" /\ tag = "picture"
    THEN process_picture(marked, t, set, derivative)
    ELSE Outcome(marked, << >>, "none")

\* A lookup that leaves alone an element whose derivative is not defined.
DispatchDefined(marked, tag, has_srcset, t, set, derivative) ==
    IF derivative \notin DOMAIN IMAGE_PROCESS
    THEN Outcome(marked, << >>, "none")
    ELSE DispatchOn(marked, tag, has_srcset, t, set, derivative, IMAGE_PROCESS[derivative])

\* The lookup of the derivative in settings["IMAGE_PROCESS"].
Dispatch(marked, tag, has_srcset, t, set, derivative) ==
    IF derivative \notin DOMAIN IMAGE_PROCESS
    THEN Outcome(marked, << >>, "RuntimeError")
    ELSE DispatchOn(marked, tag, has_srcset, t, set, derivative, IMAGE_PROCESS[derivative])

\* The loop over img["class"], mi being the position of the first token that
\* starts with "image-process-".
Marked(group, t, set, img, mi) ==
    IF mi = 0 THEN Outcome(group, << >>, "none")
    ELSE Dispatch(SetKid(group, t,
                         [img EXCEPT !.class = RewriteClass(img.class, img.class[mi], set)]),
                  group.tag, img.srcset # None, t, set, Drop(img.class[mi], 1))

\* The body of the loop over the selected elements, for the img at position t
\* of a group.
HarvestElement(group, t, set) ==
    Marked(group, t, set, group.kids[t], MarkerIndex(group.kids[t].class))

\* One iteration of the loop with its process_image calls carried out:
\* [group, dst, log, exc].
Carried(o, r) ==
    [group |-> o.group, dst |-> r.dst, log |-> r.log,
     exc |-> IF r.exc # "none" THEN r.exc ELSE o.exc]

\* The jobs of an iteration left for later instead of being run.
QueuedNotRun(o, force, dst) == Carried(o, RunJobs(<< >>, force, dst, << >>))

Queued(o, force, dst) == Carried(o, RunJobs(o.jobs, force, dst, << >>))

Iteration(group, t, set, force, dst) == Queued(HarvestElement(group, t, set), force, dst)

\* ------------------------------------------------------------------------
\* Inputs
\* ------------------------------------------------------------------------

MaxElems == 2
MaxCalls == 2

SrcA == <<"/", "t", "/", "a">>
SrcB == <<"/", "t", "/", "b">>

Tok(name) == <<MARK>> \o name

\* <p><img class="image-process-NAME" src="SRC"/></p>
TImg(name, src) == Group("p", << Img(<< Tok(name) >>, src) >>)

\* <picture><source class="s" src="/t/b"/><img class="image-process-NAME" .../></picture>
TPicture(name) ==
    Group("picture", << Element("source", <<SrcS>>, SrcB), Img(<< Tok(name) >>, SrcA) >>)

\* <div><img class="image-process-NAME" .../><img class="image-process s" src="/t/b"/></div>
TDiv(name) ==
    Group("div", << Img(<< Tok(name) >>, SrcA), Img(<<GENERIC, SrcS>>, SrcB) >>)

CacheTemplates ==
    { TImg(<<"c">>, SrcA), TImg(<<"c">>, SrcB), TImg(<<"w">>, SrcA), TImg(<<"b">>, SrcB) }

DispatchTemplates ==
    { TImg(<<"c">>, SrcA), TImg(<<"i">>, SrcB), TImg(<<"r">>, SrcA), TImg(<<"m">>, SrcB),
      TImg(<<"u">>, SrcA), TImg(<<"w">>, SrcA), TImg(<<"z">>, SrcA), TImg(<<"n">>, SrcA),
      TImg(<<"t">>, SrcA), TImg(<<"k">>, SrcA), TImg(<<"p">>, SrcA),
      TPicture(<<"p">>), TPicture(<<"q">>), TDiv(<<"p">>), TDiv(<<"q">>), TDiv(<<"y">>) }

FragmentsOver(templates) == UNION {[1..n -> templates] : n \in 0..MaxElems}

ClassSettings ==
    { DefaultSettings,
      [DefaultSettings EXCEPT !.add_class = FALSE],
      [DefaultSettings EXCEPT !.class_prefix = <<"x", "-">>] }

\* <p><img class="a image-process image-process-NAME b" src="SRC"/></p>
TImgTokens(name, src) ==
    Group("p", << Img(<< <<"a">>, GENERIC, Tok(name), <<"b">> >>, src) >>)

\* <p><img class="image-process-NAME" src="SRC" srcset="s"/></p>
TImgSrcset(name, src) ==
    Group("p", << [Img(<< Tok(name) >>, src) EXCEPT !.srcset = <<"s">>] >>)

ClassTemplates ==
    { TImg(<<"c">>, SrcA), TImgTokens(<<"c">>, SrcA), TImg(<<"r">>, SrcA),
      TImgTokens(<<"m">>, SrcB), TImgSrcset(<<"r">>, SrcA), TImgSrcset(<<"c">>, SrcB),
      TImg(<<"z">>, SrcA) }

PictureTemplates ==
    { TPicture(<<"p">>), TPicture(<<"q">>), TPicture(<<"e">>), TPicture(<<"y">>),
      TDiv(<<"p">>), TDiv(<<"q">>), TDiv(<<"e">>), TDiv(<<"y">>) }

\* The settings of test_class_settings.
PrefixSettings ==
    ClassSettings \cup
    { [DefaultSettings EXCEPT !.class_prefix = Empty],
      [DefaultSettings EXCEPT !.add_class = FALSE, !.class_prefix = Empty] }

SourcePaths == { Join2(PATH, Drop(SrcA, 1)), Join2(PATH, Drop(SrcB, 1)) }

\* The references of test_path_normalization and of
\* test_special_chars_in_image_path_are_handled_properly: "../t/a",
\* "h://x/t/a", "/t/a b", "/t/a,b" and "/t/a%20b".
SrcUp == <<".", ".", "/", "t", "/", "a">>
SrcHost == <<"h", ":", "/", "/", "x", "/", "t", "/", "a">>
SrcSpace == <<"/", "t", "/", "a", " ", "b">>
SrcComma == <<"/", "t", "/", "a", ",", "b">>
SrcCoded == <<"/", "t", "/", "a", "%", "2", "0", "b">>

SpecialSrcs == {SrcUp, SrcHost, SrcSpace, SrcComma, SrcCoded}

PathTemplates ==
    { TImg(<<"c">>, SrcA), TImg(<<"c">>, SrcUp), TImg(<<"c">>, SrcHost),
      TImg(<<"c">>, SrcSpace), TImg(<<"r">>, SrcA), TImg(<<"r">>, SrcSpace),
      TImg(<<"r">>, SrcComma), TImg(<<"m">>, SrcCoded), TImg(<<"z">>, SrcA),
      Group("div", << Img(<< Tok(<<"p">>) >>, SrcSpace), Img(<<GENERIC, SrcS>>, SrcComma) >>) }

\* IMAGE_PROCESS_DIR "d" and "d x".
PathSettings ==
    { DefaultSettings, [DefaultSettings EXCEPT !.process_dir = <<"d", " ", "x">>] }

\* Operation lists that are empty, chained, with a callable, and with a step
\* that raises.
StepTemplates ==
    { TImg(<<"o">>, SrcA), TImg(<<"g">>, SrcA), TImg(<<"a">>, SrcA), TImg(<<"v">>, SrcB),
      TImg(<<"b">>, SrcB) }

\* Class tokens around the marker: "image-process-c", "a image-process
\* image-process-c-1 image-process-c", "image-process-", "ximage-process-c",
\* "image-process- image-process-c", "image-process-c.1" and the undefined
\* "image-process-z".
MarkerTemplates ==
    { TImg(<<"c">>, SrcA),
      Group("p", << Img(<< <<"a">>, GENERIC, Tok(<<"c", "-", "1">>), Tok(<<"c">>) >>, SrcB) >>),
      Group("p", << Img(<< <<MARK>> >>, SrcA) >>),
      Group("p", << Img(<< <<"x", MARK, "c">> >>, SrcA) >>),
      Group("p", << Img(<< <<MARK>>, Tok(<<"c">>) >>, SrcA) >>),
      Group("p", << Img(<< Tok(<<"c", ".", "1">>) >>, SrcB) >>),
      TImg(<<"z">>, SrcB) }

\* A generated-content record: contobj.get_url_setting("save_as"),
\* contobj.source_path and contobj.settings["OUTPUT_PATH"].
Content1(save_as, source_path, output_path) ==
    [save_as |-> save_as, source_path |-> source_path, output_path |-> output_path]

\* static_content: empty; a record with an empty save_as before one saved
\* as "t/a"; two records that both end the path "t/a"; a record saved as
\* "t/b".
StaticContents ==
    { << >>,
      << Content1(Empty, <<"/", "s", "/", "e">>, <<"/", "p">>),
         Content1(<<"t", "/", "a">>, <<"/", "s", "/", "x">>, <<"/", "p">>) >>,
      << Content1(<<"a">>, <<"/", "s", "/", "y">>, <<"/", "p">>),
         Content1(<<"t", "/", "a">>, <<"/", "s", "/", "x">>, <<"/", "r">>) >>,
      << Content1(<<"t", "/", "b">>, <<"/", "s", "/", "b">>, <<"/", "p">>) >> }

\* SITEURL: not set, "", "h://x", and with the paths "/t", "/a" and "/q".
SiteUrls ==
    { None, Empty, <<"h", ":", "/", "/", "x">>, <<"h", ":", "/", "/", "x", "/", "t">>,
      <<"h", ":", "/", "/", "x", "/", "a">>, <<"h", ":", "/", "/", "x", "/", "q">> }

RootSettings ==
    { [DefaultSettings EXCEPT !.static_content = static_content, !.siteurl = siteurl] :
         static_content \in StaticContents, siteurl \in SiteUrls }

RootTemplates ==
    { TImg(<<"c">>, SrcA), TImg(<<"c">>, SrcB), TImg(<<"c">>, SrcUp), TImg(<<"z">>, SrcA) }

NoFiles == [q \in {} |-> OldContent]

\* ------------------------------------------------------------------------
\* The state machine
\* ------------------------------------------------------------------------

\* No image operation is called on its own.
NoOp == [i |-> [width |-> 1, height |-> 1], args |-> << >>, done |-> "none",
         upscale |-> [py |-> "bool", v |-> <<"F", "a", "l", "s", "e">>], inside |-> FALSE,
         out |-> [exc |-> "none", v |-> << >>]]

InitCommon ==
    /\ dstFiles = NoFiles
    /\ now = 1
    /\ pc = "idle"
    /\ call = [force |-> FALSE, copy_exif |-> FALSE, no |-> 0]
    /\ soup = << >>
    /\ pos = 0
    /\ log = << >>
    /\ result = None
    /\ exc = "none"
    /\ exifInstance = FALSE
    /\ prev = [force |-> FALSE, result |-> None, exc |-> "none", no |-> 0, writes |-> 0]
    /\ quiet = 0

\* Few derivatives, every state of the source and destination files.
InitCache ==
    /\ fragment \in FragmentsOver(CacheTemplates)
    /\ settings = [DefaultSettings EXCEPT !.force = BOOLEAN]
    /\ srcFiles \in [SourcePaths -> [state : {"ok", "missing", "corrupt"}, mtime : {1}]]
    /\ dst0 \in {"absent", "stale", "fresh"}
    /\ runs = MaxCalls
    /\ op = NoOp
    /\ InitCommon

\* Every derivative and class setting, all sources readable, no destination,
\* one call.
InitDispatch ==
    /\ fragment \in FragmentsOver(DispatchTemplates)
    /\ settings \in ClassSettings
    /\ srcFiles = [q \in SourcePaths |-> [state |-> "ok", mtime |-> 1]]
    /\ dst0 = "absent"
    /\ runs = 1
    /\ op = NoOp
    /\ InitCommon

\* The class attribute: few derivatives, every setting of add_class and
\* class_prefix, all sources readable, no destination, one call.
InitClass ==
    /\ fragment \in FragmentsOver(ClassTemplates)
    /\ settings \in PrefixSettings
    /\ srcFiles = [q \in SourcePaths |-> [state |-> "ok", mtime |-> 1]]
    /\ dst0 = "absent"
    /\ runs = 1
    /\ op = NoOp
    /\ InitCommon

\* The picture derivatives in a div and in a picture, the settings of the
\* tests, all sources readable, no destination, one call.
InitPicture ==
    /\ fragment \in FragmentsOver(PictureTemplates)
    /\ settings \in ClassSettings
    /\ srcFiles = [q \in SourcePaths |-> [state |-> "ok", mtime |-> 1]]
    /\ dst0 = "absent"
    /\ runs = 1
    /\ op = NoOp
    /\ InitCommon

\* References with "../", a scheme and host, spaces, commas and escapes,
\* IMAGE_PROCESS_DIR with and without a space, all sources readable, no
\* destination, one call.
InitPaths ==
    /\ fragment \in FragmentsOver(PathTemplates)
    /\ settings \in PathSettings
    /\ srcFiles = [q \in SourcePaths \cup
                         {compute_paths(src, DefaultSettings, <<"c">>).source :
                             src \in SpecialSrcs}
                    |-> [state |-> "ok", mtime |-> 1]]
    /\ dst0 = "absent"
    /\ runs = 1
    /\ op = NoOp
    /\ InitCommon

\* Operation lists of every kind, every state of the source files, a
\* destination absent or older than its source, force on and off, EXIF tags
\* copied.
InitSteps ==
    /\ fragment \in FragmentsOver(StepTemplates)
    /\ settings = [DefaultSettings EXCEPT !.force = BOOLEAN, !.copy_exif = {TRUE}]
    /\ srcFiles \in [SourcePaths -> [state : {"ok", "missing", "corrupt"}, mtime : {1}]]
    /\ dst0 \in {"absent", "stale"}
    /\ runs = MaxCalls
    /\ op = NoOp
    /\ InitCommon

\* Class tokens of every shape around the marker, the default settings, all
\* sources readable, no destination, one call.
InitMarkers ==
    /\ fragment \in FragmentsOver(MarkerTemplates)
    /\ settings = DefaultSettings
    /\ srcFiles = [q \in SourcePaths |-> [state |-> "ok", mtime |-> 1]]
    /\ dst0 = "absent"
    /\ runs = 1
    /\ op = NoOp
    /\ InitCommon

\* Every static_content and SITEURL of the model, no destination, one call;
\* the source files are those of the content directory.
InitRoots ==
    /\ fragment \in FragmentsOver(RootTemplates)
    /\ settings \in RootSettings
    /\ srcFiles = [q \in SourcePaths |-> [state |-> "ok", mtime |-> 1]]
    /\ dst0 = "absent"
    /\ runs = 1
    /\ op = NoOp
    /\ InitCommon

\* Calls with and without IMAGE_PROCESS_COPY_EXIF_TAGS, forced or not, on
\* fragments that abort or not; exiftool is installed.
InitExif ==
    /\ fragment \in FragmentsOver({ TImg(<<"c">>, SrcA), TImg(<<"c">>, SrcB),
                                     TImg(<<"z">>, SrcA) })
    /\ settings = [DefaultSettings EXCEPT !.force = BOOLEAN, !.copy_exif = BOOLEAN]
    /\ srcFiles = [q \in SourcePaths |-> [state |-> "ok", mtime |-> 1]]
    /\ dst0 = "absent"
    /\ runs = MaxCalls
    /\ op = NoOp
    /\ InitCommon

\* An image of 4x2 or 3x6 and the four parameters of a step: numbers,
\* percentages, "None", and strings that are neither; no fragment.
InitOps ==
    /\ op \in {[NoOp EXCEPT !.i = i, !.args = args] :
                   i \in { [width |-> 4, height |-> 2], [width |-> 3, height |-> 6] },
                   args \in [1..4 -> { <<"1">>, <<"6">>, <<"5", "0", "%">>,
                                       <<"2", "0", "0", "%">>, <<"2", ".", "5">>,
                                       <<"-", "1">>, NoneStr, Empty, <<"x">>,
                                       <<"x", "%">> }]}
    /\ fragment = << >>
    /\ settings = DefaultSettings
    /\ srcFiles = [q \in SourcePaths |-> [state |-> "ok", mtime |-> 1]]
    /\ dst0 = "absent"
    /\ runs = 0
    /\ InitCommon

\* The number of process_image calls of a log that wrote their destination.
Writes(entries) == Cardinality({i \in 1..Len(entries) : entries[i].outcome = "written"})

\* The calls of the element at position k of the scan list.
Tagged(entries, k) == [i \in 1..Len(entries) |-> [entries[i] EXCEPT !.elem = k]]

\* harvest_images_in_fragment is called: the fragment is parsed, the scan
\* list is built and ExifTool is started when asked for.
Begin(force, copy_exif) ==
    /\ pc # "scanning"
    /\ call.no < runs
    /\ force \in settings.force
    /\ copy_exif \in settings.copy_exif
    /\ pc' = "scanning"
    /\ call' = [force |-> force, copy_exif |-> copy_exif, no |-> call.no + 1]
    /\ prev' = [force |-> call.force, result |-> result, exc |-> exc, no |-> call.no,
                writes |-> Writes(log)]
    /\ soup' = fragment
    /\ pos' = 0
    /\ log' = << >>
    /\ exifInstance' = IF copy_exif THEN TRUE ELSE exifInstance
    /\ quiet' = IF quiet < MaxCalls THEN quiet + 1 ELSE quiet
    /\ UNCHANGED <<op, fragment, settings, runs, srcFiles, dst0, dstFiles, now, result, exc>>

\* The next group of the scan list and the iteration on it.
NextGroup == ScanList(fragment)[pos + 1]

IterationAt(g) ==
    Iteration(soup[g], TriggerOf(fragment[g]), settings, call.force, dstFiles)

\* One iteration of the loop ends normally.
Continue(g, it) ==
    /\ it.exc = "none"
    /\ soup' = [soup EXCEPT ![g] = it.group]
    /\ dstFiles' = it.dst
    /\ log' = log \o Tagged(it.log, pos + 1)
    /\ pos' = pos + 1
    /\ UNCHANGED <<op, fragment, settings, runs, srcFiles, dst0, now, pc, call, result, exc,
                   exifInstance, prev, quiet>>

Step ==
    /\ pc = "scanning"
    /\ pos < Len(ScanList(fragment))
    /\ Continue(NextGroup, IterationAt(NextGroup))

\* One iteration of the loop raises: the call ends without a result, and
\* without reaching ExifTool.stop_exiftool().
Abort(it) ==
    /\ it.exc # "none"
    /\ pc' = "raised"
    /\ exc' = it.exc
    /\ result' = None
    /\ dstFiles' = it.dst
    /\ log' = log \o Tagged(it.log, pos + 1)
    /\ UNCHANGED <<op, fragment, settings, runs, srcFiles, dst0, now, call, soup, pos,
                   exifInstance, prev, quiet>>

Raise ==
    /\ pc = "scanning"
    /\ pos < Len(ScanList(fragment))
    /\ Abort(IterationAt(NextGroup))

\* The loop is over: ExifTool is stopped and str(soup) is returned.
Return ==
    /\ pc = "scanning"
    /\ pos = Len(ScanList(fragment))
    /\ pc' = "returned"
    /\ result' = soup
    /\ exc' = "none"
    /\ exifInstance' = FALSE
    /\ UNCHANGED <<op, fragment, settings, runs, srcFiles, dst0, dstFiles, now, call, soup, pos,
                   log, prev, quiet>>

\* Between two calls a source file is modified (one modification between
\* two calls is enough to make a destination stale).
Touch(path) ==
    /\ pc # "scanning"
    /\ quiet > 0
    /\ srcFiles[path].state # "missing"
    /\ now' = now + 1
    /\ srcFiles' = [srcFiles EXCEPT ![path].mtime = now + 1]
    /\ quiet' = 0
    /\ UNCHANGED <<op, fragment, settings, runs, dst0, dstFiles, pc, call, soup, pos, log,
                   result, exc, exifInstance, prev>>

Next ==
    \/ \E force \in BOOLEAN, copy_exif \in BOOLEAN : Begin(force, copy_exif)
    \/ Step
    \/ Raise
    \/ Return
    \/ \E path \in SourcePaths : Touch(path)

\* convert_box is called on the image with the four parameters.
CallConvertBox ==
    /\ op.done = "none" /\ op.args # << >>
    /\ op' = [op EXCEPT !.done = "convert_box",
                        !.out = convert_box(op.i, op.args[1], op.args[2], op.args[3],
                                            op.args[4])]
    /\ UNCHANGED <<fragment, settings, runs, srcFiles, dst0, dstFiles, now, pc, call, soup,
                   pos, log, result, exc, exifInstance, prev, quiet>>

\* A step "crop p1 p2 p3 p4" is applied: basic_ops["crop"](i, p1, p2, p3, p4).
CallCrop ==
    /\ op.done = "none" /\ op.args # << >>
    /\ op' = [op EXCEPT !.done = "crop",
                        !.out = crop(op.i, op.args[1], op.args[2], op.args[3], op.args[4])]
    /\ UNCHANGED <<fragment, settings, runs, srcFiles, dst0, dstFiles, now, pc, call, soup,
                   pos, log, result, exc, exifInstance, prev, quiet>>

\* scale is called on the image with the first two parameters: scale_in
\* (inside) or scale_out.
CallScale(upscale, inside) ==
    /\ op.done = "none" /\ op.args # << >>
    /\ op' = [op EXCEPT !.done = "scale", !.upscale = upscale, !.inside = inside,
                        !.out = scale(op.i, op.args[1], op.args[2], upscale, inside)]
    /\ UNCHANGED <<fragment, settings, runs, srcFiles, dst0, dstFiles, now, pc, call, soup,
                   pos, log, result, exc, exifInstance, prev, quiet>>

NextOps ==
    \/ CallConvertBox
    \/ CallCrop
    \/ \E upscale \in { [py |-> "int", v |-> <<"0">>], [py |-> "int", v |-> <<"1">>],
                         [py |-> "bool", v |-> <<"F", "a", "l", "s", "e">>],
                         [py |-> "bool", v |-> <<"T", "r", "u", "e">>],
                         [py |-> "str", v |-> <<"0">>],
                         [py |-> "str", v |-> <<"F", "a", "l", "s", "e">>],
                         [py |-> "str", v |-> <<"T", "r", "u", "e">>],
                         [py |-> "str", v |-> <<"f", "a", "l", "s", "e">>] },
          inside \in BOOLEAN : CallScale(upscale, inside)

\* The image operations on their own.
SpecOps == InitOps /\ [][NextOps]_vars

\* ExifTool over a sequence of calls.
SpecExif == InitExif /\ [][Next]_vars

\* The source and the output root of compute_paths.
SpecRoots == InitRoots /\ [][Next]_vars

\* The selection of the trigger elements and of their derivative.
SpecMarkers == InitMarkers /\ [][Next]_vars

\* The steps of process_image.
SpecSteps == InitSteps /\ [][Next]_vars

\* The cache: few derivatives, every state of the files, force on and off.
SpecCache == InitCache /\ [][Next]_vars

\* The paths and urls: references and IMAGE_PROCESS_DIR with special
\* characters.
SpecPaths == InitPaths /\ [][Next]_vars

\* The dispatch: every derivative and class setting.
SpecDispatch == InitDispatch /\ [][Next]_vars

\* The picture derivatives.
SpecPicture == InitPicture /\ [][Next]_vars

\* The class attribute and the elements that already carry a srcset.
SpecClass == InitClass /\ [][Next]_vars

\* ------------------------------------------------------------------------
\* The build gate, the cache and the failures of one job
\* ------------------------------------------------------------------------

\* A call of process_image went past its condition: it tried to open the
\* source (and, the source read, ran the ops and wrote the destination).
Attempted(e) ==
    \/ e.outcome \in {"abandoned", "written"}
    \/ e.outcome = "raised" /\ e.exc # "FileNotFoundError"

\* The source was modified after the destination was, as the call found them.
SourceNewer(e) == e.before.sstate # "missing" /\ e.before.smtime > e.before.dmtime

\* C1: process_image attempts to build a job exactly when the force flag is
\* set, or the destination does not exist, or the source is strictly newer
\* than the destination.  So with force set every job is attempted, and with
\* force unset an existing destination at least as new as the source is never
\* rewritten.
C1_BuildGate ==
    \A i \in 1..Len(log) :
        /\ Attempted(log[i]) <=>
               (call.force \/ ~log[i].before.exists \/ SourceNewer(log[i]))
        /\ (~call.force /\ log[i].before.exists
               /\ log[i].before.dmtime >= log[i].before.smtime)
           => log[i].outcome # "written"

\* A run without force has rebuilt a destination older than its source and
\* has left alone one that is as new as its source.
C1_Witness ==
    /\ ~call.force
    /\ \E i \in 1..Len(log) :
          /\ log[i].before.exists /\ SourceNewer(log[i])
          /\ log[i].outcome = "written"
    /\ \E i \in 1..Len(log) :
          /\ log[i].before.exists /\ log[i].before.sstate = "ok"
          /\ log[i].before.dmtime = log[i].before.smtime
          /\ log[i].outcome = "skipped"

\* The second of two calls on the same fragment, both without force, no source
\* modified since the first began, is over.
SecondQuietCall ==
    /\ pc \in {"returned", "raised"}
    /\ prev.no >= 1 /\ quiet >= 2
    /\ ~call.force /\ ~prev.force

\* C2: run twice on an unchanged fragment with unchanged settings, sources
\* and force unset, the function returns the same HTML both times and the
\* second run writes no file.
C2_SecondRunIdle ==
    SecondQuietCall =>
        /\ exc = prev.exc
        /\ exc = "none" => result = prev.result
        /\ Writes(log) = 0

\* The first run wrote a file and returned HTML; the second run made its
\* calls of process_image, wrote nothing and returned the same HTML.
C2_Witness ==
    /\ SecondQuietCall
    /\ prev.writes > 0 /\ prev.exc = "none"
    /\ Len(log) > 0 /\ Writes(log) = 0
    /\ pc = "returned" /\ result = prev.result

\* C3 as the specification states it: a job whose source does not exist or
\* cannot be decoded never makes process_image raise, whatever the force flag
\* and whether or not the destination exists, so the jobs after it are still
\* executed.  The code violates it: with force unset and the destination
\* existing, os.path.getmtime of a missing source raises FileNotFoundError.
C3_UnreadableSourceNeverRaises ==
    \A i \in 1..Len(log) :
        log[i].before.sstate \in {"missing", "corrupt"} => log[i].outcome # "raised"

\* Two calls of one run, the first before the second, for the same
\* destination file, both sources readable and neither call raising.
SameDestination(i, j) ==
    /\ i < j
    /\ Unquote(log[i].job.destination) = Unquote(log[j].job.destination)
    /\ log[i].before.sstate = "ok" /\ log[j].before.sstate = "ok"
    /\ log[i].outcome # "raised" /\ log[j].outcome # "raised"

\* The last call of the log that wrote the file at path (0: none did).
LastWrite(path) ==
    Last({0} \cup {i \in 1..Len(log) :
                      /\ Unquote(log[i].job.destination) = path
                      /\ log[i].outcome = "written"})

\* The file at path holds what the call e wrote there.
Holds(path, e) ==
    /\ path \in DOMAIN dstFiles
    /\ dstFiles[path].content.source = Unquote(e.job.source)
    /\ dstFiles[path].content.ops = e.job.ops

HoldsLastWrite(path, k) == k > 0 => Holds(path, log[k])

\* No call after the call j is for the destination of the call j.
LaterOne(j) ==
    \A k \in 1..Len(log) :
        Unquote(log[k].job.destination) = Unquote(log[j].job.destination) => k <= j

\* C4 as the specification states it: when two jobs of one run target the
\* same destination, both are executed and write it, and the destination
\* afterwards holds the output of the later one.  It is stated here for a
\* destination that did not exist when the earlier job was called, so that
\* no file older than the run stands between the jobs and their writes.
C4_BothWriteLastWins ==
    \A i, j \in 1..Len(log) :
        (SameDestination(i, j) /\ ~log[i].before.exists) =>
            /\ log[i].outcome = "written" /\ log[j].outcome = "written"
            /\ LaterOne(j) => Holds(Unquote(log[j].job.destination), log[j])

\* C4 as the code has it: jobs are not deduplicated, process_image is called
\* for each, and each call passes the condition on its own.  With force set
\* both calls write and the destination holds the output of the later one;
\* with force unset, once the earlier call has written the destination the
\* later call is skipped, so the destination holds the output of the earlier
\* one.  In every case the file holds what the last call that wrote it wrote.
C4_LastWriteWins ==
    /\ \A i, j \in 1..Len(log) :
          SameDestination(i, j) =>
              /\ call.force =>
                    /\ log[i].outcome = "written" /\ log[j].outcome = "written"
                    /\ LaterOne(j) => Holds(Unquote(log[j].job.destination), log[j])
              /\ (~call.force /\ log[i].outcome = "written") =>
                    log[j].outcome = "skipped"
    /\ \A i \in 1..Len(log) :
          HoldsLastWrite(Unquote(log[i].job.destination),
                         LastWrite(Unquote(log[i].job.destination)))

\* With force set, two jobs with different ops have written one destination;
\* it holds the output of the later one.
C4_Witness ==
    /\ call.force
    /\ \E i, j \in 1..Len(log) :
          /\ SameDestination(i, j)
          /\ log[i].job.ops # log[j].job.ops
          /\ log[i].outcome = "written" /\ log[j].outcome = "written"
          /\ LaterOne(j)
          /\ Holds(Unquote(log[j].job.destination), log[j])

\* ------------------------------------------------------------------------
\* The dispatch of an element
\* ------------------------------------------------------------------------

\* The k-th element of the scan list: its group in the fragment, the position
\* of the img in the group, the img as the fragment has it, the derivative
\* its marker names.
GroupAt(k) == ScanList(fragment)[k]

ImgAt(k) == TriggerOf(fragment[GroupAt(k)])

TriggerImg(k) == fragment[GroupAt(k)].kids[ImgAt(k)]

DerivativeOf(img) == Drop(img.class[MarkerIndex(img.class)], 1)

DerivativeAt(k) == DerivativeOf(TriggerImg(k))

Undefined(k) == DerivativeAt(k) \notin DOMAIN IMAGE_PROCESS

\* The jobs process_image was called with for the k-th element, in call order.
CallsOf(k) == LET OfElement(e) == e.elem = k IN SelectSeq(log, OfElement)

JobsOf(k) == [i \in 1..Len(CallsOf(k)) |-> CallsOf(k)[i].job]

\* The elements whose iteration of the loop has ended without an exception.
Completed == 1..pos

\* C5: when the marker of a trigger element names a derivative absent from
\* IMAGE_PROCESS, harvest_images_in_fragment raises RuntimeError at that
\* element, without a call of process_image for it, and returns no HTML: no
\* iteration completes for such an element and no call returns for a fragment
\* that holds one.
C5_UndefinedDerivativeFatal ==
    /\ \A k \in Completed : ~Undefined(k)
    /\ pc = "returned" => \A k \in 1..Len(ScanList(fragment)) : ~Undefined(k)
    /\ (pc = "raised" /\ Undefined(pos + 1)) =>
          /\ exc = "RuntimeError"
          /\ result = None
          /\ JobsOf(pos + 1) = << >>

\* The call has raised RuntimeError at an element with an undefined
\* derivative, after an element whose jobs were run.
C5_Witness ==
    /\ pc = "raised" /\ exc = "RuntimeError"
    /\ pos >= 1 /\ Len(log) > 0
    /\ Undefined(pos + 1)
    /\ result = None

KnownType(d) ==
    /\ d.py = "dict"
    /\ "type" \in DOMAIN d.v
    /\ d.v.type \in {"image", "responsive-image", "picture"}

\* C6 as the specification states it: a derivative spec is dispatched only if
\* it is a list or a dict whose type is image, responsive-image or picture; a
\* dict without type raises a fatal error, a value that is neither list nor
\* dict a fatal type error, and a dict with any other type is rejected too,
\* so no iteration completes for such a spec.  The code violates the last
\* part: a dict with an unknown type matches no branch and is passed over.
C6_ValidationExhaustive ==
    /\ \A k \in Completed :
          ~Undefined(k) =>
              \/ IMAGE_PROCESS[DerivativeAt(k)].py = "list"
              \/ KnownType(IMAGE_PROCESS[DerivativeAt(k)])
    /\ (pc = "raised" /\ ~Undefined(pos + 1)) =>
          /\ IMAGE_PROCESS[DerivativeAt(pos + 1)].py \notin {"list", "dict"}
                => exc = "TypeError"
          /\ (/\ IMAGE_PROCESS[DerivativeAt(pos + 1)].py = "dict"
              /\ "type" \notin DOMAIN IMAGE_PROCESS[DerivativeAt(pos + 1)].v)
                => exc = "RuntimeError"

\* A responsive-image spec whose default is a string that labels no entry of
\* its srcset.
UnresolvedDefault(d) ==
    /\ KnownType(d) /\ d.v.type = "responsive-image"
    /\ "default" \in DOMAIN d.v /\ "srcset" \in DOMAIN d.v
    /\ d.v.default.py = "str"
    /\ \A i \in 1..Len(d.v.srcset) : d.v.srcset[i][1] # d.v.default.v

\* C7 as the specification states it: for a responsive-image derivative
\* whose string default names no entry of its srcset the processing of the
\* fragment aborts, so no iteration completes for an element with such a
\* derivative and its src is never rewritten.  The code violates it:
\* build_srcset logs an error, rewrites the src and goes on.
C7_UnresolvedDefaultFatal ==
    \A k \in Completed :
        ~Undefined(k) => ~UnresolvedDefault(IMAGE_PROCESS[DerivativeAt(k)])

\* A list, or a dict of type image.
SingleImage(d) == d.py = "list" \/ (KnownType(d) /\ d.v.type = "image")

SingleOps(d) == IF d.py = "list" THEN d.v ELSE d.v.ops

SingleOk(k, img, path, d) ==
    /\ img.src = Join2(path.base_url, path.filename)
    /\ JobsOf(k) = << Job(path.source, Join2(path.base_path, path.filename),
                          SingleOps(d)) >>

\* C8: for a single-image derivative (a list, or a dict of type image) the
\* src of the trigger element becomes base_url/filename and exactly one job
\* is queued: (source, base_path/filename, ops), ops being the list itself or
\* the dict's ops.  For src="/t/a" and the derivative c that is the url
\* /t/d/c/a and the job from /c/t/a to /o/t/d/c/a.
C8_SingleImage ==
    \A k \in Completed :
        (~Undefined(k) /\ SingleImage(IMAGE_PROCESS[DerivativeAt(k)])) =>
            /\ SingleOk(k, soup[GroupAt(k)].kids[ImgAt(k)],
                        compute_paths(TriggerImg(k).src, settings, DerivativeAt(k)),
                        IMAGE_PROCESS[DerivativeAt(k)])
            /\ (DerivativeAt(k) = <<"c">> /\ TriggerImg(k).src = SrcA) =>
                  /\ soup[GroupAt(k)].kids[ImgAt(k)].src
                        = <<"/", "t", "/", "d", "/", "c", "/", "a">>
                  /\ JobsOf(k) = << Job(<<"/", "c", "/", "t", "/", "a">>,
                                        <<"/", "o", "/", "t", "/", "d", "/", "c", "/", "a">>,
                                        OpsA) >>

\* A fragment with an element of a list derivative and an element of a dict
\* derivative of type image has been processed, one job run for each.
C8_Witness ==
    /\ pc = "returned" /\ pos = 2 /\ Len(log) = 2
    /\ ~Undefined(1) /\ ~Undefined(2)
    /\ IMAGE_PROCESS[DerivativeAt(1)].py = "list"
    /\ IMAGE_PROCESS[DerivativeAt(2)].py = "dict"
    /\ SingleImage(IMAGE_PROCESS[DerivativeAt(2)])
    /\ log[1].outcome = "written" /\ log[2].outcome = "written"

\* A responsive-image spec whose default is a list of operations.
ListDefault(d) ==
    /\ KnownType(d) /\ d.v.type = "responsive-image"
    /\ "default" \in DOMAIN d.v /\ "srcset" \in DOMAIN d.v
    /\ d.v.default.py = "list"

ResponsiveOk(jobs, img, path, process) ==
    /\ Len(jobs) = 1 + Len(process.srcset)
    /\ jobs[1] = Job(path.source, Join(path.base_path, <<DEFAULT, path.filename>>),
                     process.default.v)
    /\ \A i \in 1..Len(process.srcset) :
          jobs[i + 1] = Job(path.source,
                            Join(path.base_path, <<process.srcset[i][1], path.filename>>),
                            process.srcset[i][2])
    /\ img.src = Join(path.base_url, <<DEFAULT, path.filename>>)
    /\ img.srcset =
          JoinComma([i \in 1..Len(process.srcset) |->
                        Join(path.base_url, <<process.srcset[i][1], path.filename>>)
                        \o <<" ">> \o process.srcset[i][1]])

\* C9: for a responsive-image derivative whose default is a list of
\* operations, the job of the default (destination .../default/filename) is
\* queued first, then one job per srcset entry in declared order; src points
\* at the default subdirectory and the srcset attribute lists exactly the
\* declared entries in declared order, each as "<url> <label>", without the
\* default.
C9_ListDefaultFirst ==
    \A k \in Completed :
        (~Undefined(k) /\ ListDefault(IMAGE_PROCESS[DerivativeAt(k)])) =>
            ResponsiveOk(JobsOf(k), soup[GroupAt(k)].kids[ImgAt(k)],
                         compute_paths(TriggerImg(k).src, settings, DerivativeAt(k)),
                         IMAGE_PROCESS[DerivativeAt(k)].v)

\* An element of a responsive-image derivative with a list default and two
\* srcset entries has been processed: three jobs written, the default first.
C9_Witness ==
    /\ pos >= 1 /\ ~Undefined(1)
    /\ ListDefault(IMAGE_PROCESS[DerivativeAt(1)])
    /\ Len(IMAGE_PROCESS[DerivativeAt(1)].v.srcset) = 2
    /\ Len(JobsOf(1)) = 3
    /\ Basename(Dirname(JobsOf(1)[1].destination)) = DEFAULT
    /\ \A i \in 1..3 : CallsOf(1)[i].outcome = "written"

\* The element is dispatched to build_srcset, convert_div_to_picture_tag or
\* process_picture.
Variants(k, d) ==
    /\ KnownType(d)
    /\ \/ d.v.type = "responsive-image"
       \/ d.v.type = "picture" /\ fragment[GroupAt(k)].tag \in {"div", "picture"}

\* The variant a job builds, read off its destination: the label of the
\* srcset entry, after the name of the source for a picture.
VariantOf(d, job) ==
    IF d.v.type = "picture"
    THEN << Basename(Dirname(Dirname(job.destination))),
            Basename(Dirname(job.destination)) >>
    ELSE << Basename(Dirname(job.destination)) >>

VariantsOf(d, jobs) == [i \in 1..Len(jobs) |-> VariantOf(d, jobs[i])]

\* The variants a spec declares, in declaration order.
RECURSIVE DeclaredIn(_)
DeclaredIn(sources) ==
    IF sources = << >> THEN << >>
    ELSE [i \in 1..Len(Head(sources).srcset) |->
             << Head(sources).name, Head(sources).srcset[i][1] >>]
         \o DeclaredIn(Tail(sources))

Declared(d) ==
    IF d.v.type = "picture" THEN DeclaredIn(d.v.sources)
    ELSE [i \in 1..Len(d.v.srcset) |-> << d.v.srcset[i][1] >>]

\* The item of the default: the string or list itself for a responsive
\* image, the second member of the pair for a picture.
DefaultItem(d) == IF d.v.type = "picture" THEN d.v.default.v[2] ELSE d.v.default

\* The variant the default stands for.
DefaultVariantOf(d) ==
    IF d.v.type = "picture"
    THEN << d.v.default.v[1], DefaultName(DefaultItem(d)) >>
    ELSE << DefaultName(DefaultItem(d)) >>

\* The default is a list of operations, or a string that names a declared
\* variant.
HasDefaultVariant(d) ==
    \/ DefaultItem(d).py = "list"
    \/ \E i \in 1..Len(Declared(d)) : Declared(d)[i] = DefaultVariantOf(d)

\* C10 as the specification states it: for responsive-image and picture
\* dispatch the job of the default variant is enqueued strictly before the
\* jobs of all other declared variants, wherever the default appears among
\* srcset or sources, a string default that names a non-first entry included.
C10_DefaultJobFirst ==
    \A k \in Completed :
        (/\ ~Undefined(k)
         /\ Variants(k, IMAGE_PROCESS[DerivativeAt(k)])
         /\ HasDefaultVariant(IMAGE_PROCESS[DerivativeAt(k)])) =>
            /\ JobsOf(k) # << >>
            /\ VariantOf(IMAGE_PROCESS[DerivativeAt(k)], JobsOf(k)[1])
                  = DefaultVariantOf(IMAGE_PROCESS[DerivativeAt(k)])

QueueOrder(d, variants) ==
    variants = (IF DefaultItem(d).py = "list" THEN << DefaultVariantOf(d) >> ELSE << >>)
               \o Declared(d)

\* C10 as the code has it: only a default given as a list of operations has
\* a job of its own, and that job is enqueued strictly before the jobs of all
\* declared variants; a default given as a string queues no job, so the job
\* of the variant it names stands at that variant's declared position.  In
\* both cases the jobs of the declared variants follow declaration order
\* (sources in order, srcset entries in order within a source).
C10_QueueOrder ==
    \A k \in Completed :
        (~Undefined(k) /\ Variants(k, IMAGE_PROCESS[DerivativeAt(k)])) =>
            QueueOrder(IMAGE_PROCESS[DerivativeAt(k)],
                       VariantsOf(IMAGE_PROCESS[DerivativeAt(k)], JobsOf(k)))

StringDefaultSecond(k, d) ==
    /\ Variants(k, d) /\ d.v.type = "responsive-image"
    /\ DefaultItem(d).py = "str"
    /\ Declared(d)[2] = DefaultVariantOf(d) /\ Declared(d)[1] # DefaultVariantOf(d)
    /\ VariantsOf(d, JobsOf(k)) = Declared(d)

ListDefaultFirst(k, d) ==
    /\ Variants(k, d) /\ d.v.type = "picture"
    /\ DefaultItem(d).py = "list"
    /\ Len(JobsOf(k)) > 1
    /\ VariantOf(d, JobsOf(k)[1]) = DefaultVariantOf(d)

\* A responsive image whose string default names its second entry has been
\* processed, its jobs in declared order, and then a picture whose default is
\* a list of operations, the job of the default first.
C10_Witness ==
    /\ pos = 2 /\ ~Undefined(1) /\ ~Undefined(2)
    /\ StringDefaultSecond(1, IMAGE_PROCESS[DerivativeAt(1)])
    /\ ListDefaultFirst(2, IMAGE_PROCESS[DerivativeAt(2)])

\* ------------------------------------------------------------------------
\* Elements with a srcset, the class attribute
\* ------------------------------------------------------------------------

\* The k-th element of the scan list as the current call has left it (the
\* groups of the fragments it is used on keep the img at its position).
ImgNow(k) == soup[GroupAt(k)].kids[ImgAt(k)]

\* Two values of an attribute are the same: both absent, or the same value.
SameAttr(a, b) ==
    IF a = None THEN b = None ELSE IF b = None THEN FALSE ELSE a = b

\* The element is an img with a srcset attribute whose derivative is a
\* responsive-image.
CarriesSrcset(k) ==
    /\ ~Undefined(k)
    /\ KnownType(IMAGE_PROCESS[DerivativeAt(k)])
    /\ IMAGE_PROCESS[DerivativeAt(k)].v.type = "responsive-image"
    /\ TriggerImg(k).srcset # None

\* C11 as the specification states it: a trigger element of a
\* responsive-image derivative that already carries a srcset attribute is
\* skipped entirely: src, srcset, sizes and class are left as they were and
\* no job is queued, under every setting of IMAGE_PROCESS_ADD_CLASS and
\* IMAGE_PROCESS_CLASS_PREFIX.  The code violates it for the class: the class
\* attribute is rewritten before the derivative is looked at.
C11_SrcsetElementUntouched ==
    \A k \in Completed :
        CarriesSrcset(k) =>
            /\ JobsOf(k) = << >>
            /\ SameAttr(ImgNow(k).src, TriggerImg(k).src)
            /\ SameAttr(ImgNow(k).srcset, TriggerImg(k).srcset)
            /\ SameAttr(ImgNow(k).sizes, TriggerImg(k).sizes)
            /\ SameAttr(ImgNow(k).class, TriggerImg(k).class)

\* The class tokens other than the first marker token, in order.
OtherTokens(class) ==
    SubSeq(class, 1, MarkerIndex(class) - 1)
    \o SubSeq(class, MarkerIndex(class) + 1, Len(class))

ClassOk(before, after, name, others) ==
    /\ (settings.add_class /\ settings.class_prefix = <<MARK>>) =>
          SameAttr(after, before)
    /\ ~settings.add_class =>
          SameAttr(after, IF others = << >> THEN None ELSE others)
    /\ (settings.add_class /\ settings.class_prefix # <<MARK>>) =>
          SameAttr(after, Append(others, settings.class_prefix \o name))
    /\ \A i \in 1..Len(others) :
          after # None /\ \E j \in 1..Len(after) : after[j] = others[i]

\* C16: the class of a trigger element: with the default settings it is
\* unchanged; with IMAGE_PROCESS_ADD_CLASS false the marker token is removed,
\* and the attribute deleted when no token is left; with a class prefix other
\* than "image-process-" (the empty string included) the marker token is
\* replaced by prefix + name, which comes last; in every case the other
\* tokens of the element are kept, in their order.
C16_ClassRewriting ==
    \A k \in Completed :
        ClassOk(TriggerImg(k).class, ImgNow(k).class, DerivativeAt(k),
                OtherTokens(TriggerImg(k).class))

\* Under an empty prefix an element with four class tokens has been
\* processed: the three other tokens are kept and the name comes last.
C16_Witness ==
    /\ settings.add_class /\ settings.class_prefix = Empty
    /\ pos >= 1
    /\ Len(TriggerImg(1).class) = 4
    /\ ImgNow(1).class = << <<"a">>, GENERIC, <<"b">>, DerivativeAt(1) >>
    /\ Len(JobsOf(1)) > 0

\* ------------------------------------------------------------------------
\* Picture derivatives
\* ------------------------------------------------------------------------

\* The element is dispatched to convert_div_to_picture_tag (tag "div") or to
\* process_picture (tag "picture").
PictureIn(k, tag) ==
    /\ ~Undefined(k)
    /\ KnownType(IMAGE_PROCESS[DerivativeAt(k)])
    /\ IMAGE_PROCESS[DerivativeAt(k)].v.type = "picture"
    /\ fragment[GroupAt(k)].tag = tag

SourcesAt(k) == IMAGE_PROCESS[DerivativeAt(k)].v.sources

\* The positions, in the group of the fragment, of the elements other than
\* the trigger that carry the class token name.
Named(k, name) ==
    {i \in 1..Len(fragment[GroupAt(k)].kids) :
        /\ i # ImgAt(k)
        /\ fragment[GroupAt(k)].kids[i].class # None
        /\ name \in Range(fragment[GroupAt(k)].kids[i].class)}

\* The url a source of the spec stands for: the src of the trigger for the
\* source "default", the src of the element named after it otherwise.
UrlOf(k, name) ==
    IF name = DEFAULT THEN TriggerImg(k).src
    ELSE fragment[GroupAt(k)].kids[First(Named(k, name))].src

\* The srcset composed for a source of the spec with that url.
Composed(k, spec, url) ==
    JoinComma([j \in 1..Len(spec.srcset) |->
                  Join(Dirname(url), <<settings.process_dir, DerivativeAt(k), spec.name,
                                       spec.srcset[j][1], Basename(url)>>)
                  \o <<" ">> \o spec.srcset[j][1]])

\* The job of entry j of a source of the spec with that url.
EntryJob(k, spec, url, j) ==
    Job(Join2(PATH, Drop(url, 1)),
        Join(OUTPUT_PATH, <<Drop(Dirname(url), 1), settings.process_dir, DerivativeAt(k),
                            spec.name, spec.srcset[j][1], Basename(url)>>),
        spec.srcset[j][2])

\* The element carries the media and sizes of the spec and nothing else but
\* the srcset composed from the spec's list (none for an empty list).
FreshSource(k, e, spec) ==
    /\ e.tag = "source"
    /\ e.class = None /\ e.src = None
    /\ e.media = (IF "media" \in DOMAIN spec THEN spec.media ELSE None)
    /\ e.sizes = (IF "sizes" \in DOMAIN spec THEN spec.sizes ELSE None)
    /\ e.srcset = (IF spec.srcset = << >> THEN None
                   ELSE Composed(k, spec, UrlOf(k, spec.name)))

EntryJobsQueued(k, spec) ==
    \A j \in 1..Len(spec.srcset) :
        Cardinality({i \in 1..Len(JobsOf(k)) :
                        JobsOf(k)[i] = EntryJob(k, spec, UrlOf(k, spec.name), j)}) = 1

\* The children of the div after the call: one picture where the trigger
\* was, holding a source per declared source and then the trigger.
Wrapped(k, kids, sources) ==
    /\ Len(kids) >= ImgAt(k)
    /\ kids[ImgAt(k)].tag = "picture"
    /\ Len(kids[ImgAt(k)].kids) = Len(sources) + 1
    /\ kids[ImgAt(k)].kids[Len(sources) + 1].tag = "img"
    /\ \A i \in 1..Len(sources) :
          /\ FreshSource(k, kids[ImgAt(k)].kids[i], sources[i])
          /\ EntryJobsQueued(k, sources[i])
    /\ \A i \in 1..Len(kids) : kids[i].tag # "img"

\* C12: picture dispatch with a div parent: the trigger img is wrapped in
\* place by a new picture that holds exactly one source per declared source,
\* in declared order, each carrying only the media and sizes of the spec and
\* the srcset composed from its own srcset list (no srcset attribute for an
\* empty list), one job being queued per entry; the sibling img elements
\* used as named sources are removed from the tree.
C12_DivWrapped ==
    \A k \in Completed :
        PictureIn(k, "div") => Wrapped(k, soup[GroupAt(k)].kids, SourcesAt(k))

\* A div whose spec has two sources, one of them a sibling img, has been
\* processed: the div holds the picture alone, with two sources that carry a
\* srcset, and three jobs were written.
C12_Witness ==
    /\ pos >= 1 /\ PictureIn(1, "div")
    /\ Len(SourcesAt(1)) = 2 /\ Named(1, SourcesAt(1)[2].name) # {}
    /\ Len(soup[GroupAt(1)].kids) = 1
    /\ soup[GroupAt(1)].kids[1].kids[1].srcset # None
    /\ soup[GroupAt(1)].kids[1].kids[2].srcset # None
    /\ Len(JobsOf(1)) >= 3
    /\ \A i \in 1..Len(CallsOf(1)) : CallsOf(1)[i].outcome = "written"

\* The element at position i of the picture is the source the spec declares,
\* with its composed srcset: a new element for the source "default", the
\* element found for a named source with its src and class taken away.
PutBack(k, e, spec) ==
    IF spec.name = DEFAULT THEN FreshSource(k, e, spec)
    ELSE e = [fragment[GroupAt(k)].kids[First(Named(k, spec.name))] EXCEPT
                 !.src = None, !.class = None,
                 !.srcset = Composed(k, spec, UrlOf(k, spec.name))]

NonEmptySources(sources) == LET Some(spec) == spec.srcset # << >>
                            IN SelectSeq(sources, Some)

Reinserted(k, kids, kept) ==
    /\ Len(kids) = Len(kept) + 1
    /\ kids[Len(kept) + 1].tag = "img"
    /\ \A i \in 1..Len(kept) : PutBack(k, kids[i], kept[i])

DefaultUndeclared(k) ==
    /\ "default" \in DOMAIN IMAGE_PROCESS[DerivativeAt(k)].v
    /\ IMAGE_PROCESS[DerivativeAt(k)].v.default.py = "tuple"
    /\ \A i \in 1..Len(SourcesAt(k)) :
          SourcesAt(k)[i].name # IMAGE_PROCESS[DerivativeAt(k)].v.default.v[1]

PictureAt(k) == PictureIn(k, "div") \/ PictureIn(k, "picture")

\* C14: in picture dispatch, under a div and under a picture alike, a
\* default whose source name is the name of no declared source raises
\* RuntimeError: the call ends there, no iteration completes for such an
\* element, and no job of the element is run.
C14_UndeclaredDefaultFatal ==
    /\ \A k \in Completed : PictureAt(k) => ~DefaultUndeclared(k)
    /\ (pc = "raised" /\ PictureAt(pos + 1) /\ DefaultUndeclared(pos + 1)) =>
          exc = "RuntimeError" /\ JobsOf(pos + 1) = << >>

\* After an element that was processed, the call has raised RuntimeError at
\* a div or picture whose default names an undeclared source.
C14_Witness ==
    /\ pc = "raised" /\ exc = "RuntimeError"
    /\ pos >= 1
    /\ PictureAt(pos + 1) /\ DefaultUndeclared(pos + 1)

DefaultLabel(item) == IF item.py = "str" THEN item.v ELSE DEFAULT

\* The url of the default variant (name, item) of the k-th element.
DefaultUrl(k, name, item) ==
    Join(Dirname(UrlOf(k, name)),
         <<settings.process_dir, DerivativeAt(k), name, DefaultLabel(item),
           Basename(UrlOf(k, name))>>)

DefaultJob(k, name, item) ==
    Job(Join2(PATH, Drop(UrlOf(k, name), 1)),
        Join2(OUTPUT_PATH, Drop(DefaultUrl(k, name, item), 1)),
        item.v)

EntryCount(sources) ==
    IF sources = << >> THEN 0
    ELSE Len(sources[1].srcset)
         + (IF Len(sources) > 1 THEN Len(sources[2].srcset) ELSE 0)

DefaultOk(k, img, name, item) ==
    /\ img.src = DefaultUrl(k, name, item)
    /\ item.py = "list" =>
          /\ JobsOf(k)[1] = DefaultJob(k, name, item)
          /\ Len(JobsOf(k)) = 1 + EntryCount(SourcesAt(k))
    /\ item.py = "str" => Len(JobsOf(k)) = EntryCount(SourcesAt(k))

LastOf(kids) == kids[Len(kids)]

\* The trigger img after the call: the last child of the picture.
PictureImg(k) ==
    IF fragment[GroupAt(k)].tag = "div"
    THEN LastOf(soup[GroupAt(k)].kids[ImgAt(k)].kids)
    ELSE LastOf(soup[GroupAt(k)].kids)

\* C15: for a picture derivative with default (source_name, variant) the src
\* of the trigger becomes <base_url of the source named source_name>/
\* <source_name>/<the variant label, or "default" for an op list>/<that
\* source's filename>, all taken from the named source; when the variant is
\* an op list exactly one more job, reading that source's file, is queued,
\* before all the jobs of the sources' srcset entries.
C15_PictureDefault ==
    \A k \in Completed :
        PictureAt(k) =>
            DefaultOk(k, PictureImg(k),
                      IMAGE_PROCESS[DerivativeAt(k)].v.default.v[1],
                      IMAGE_PROCESS[DerivativeAt(k)].v.default.v[2])

\* A picture whose default is an op list on its second source, whose file is
\* not the trigger's, has been processed: the src is under that source's
\* name and file, and the first of four jobs read that source's file.
C15_Witness ==
    /\ pos >= 1 /\ PictureAt(1)
    /\ IMAGE_PROCESS[DerivativeAt(1)].v.default.v[2].py = "list"
    /\ IMAGE_PROCESS[DerivativeAt(1)].v.default.v[1] = SourcesAt(1)[2].name
    /\ UrlOf(1, SourcesAt(1)[2].name) # TriggerImg(1).src
    /\ Basename(PictureImg(1).src) = Basename(UrlOf(1, SourcesAt(1)[2].name))
    /\ Len(JobsOf(1)) = 4
    /\ JobsOf(1)[1].source = Join2(PATH, Drop(UrlOf(1, SourcesAt(1)[2].name), 1))

\* ------------------------------------------------------------------------
\* Urls and paths
\* ------------------------------------------------------------------------

Special(url) == \E i \in 1..Len(url) : url[i] \in {" ", ","}

\* The candidate of a srcset for a url and its condition.
Candidate(url, label) == (IF Special(url) THEN Quote(url) ELSE url) \o <<" ">> \o label

\* The number of ", " in a string.
Separators(s) == Cardinality({i \in 1..(Len(s) - 1) : s[i] = "," /\ s[i + 1] = " "})

\* The attribute is the list of the candidates of the urls, one per entry,
\* no url part holding a space or a comma.
SrcsetOk(attr, entries, urls) ==
    /\ attr = JoinComma([j \in 1..Len(entries) |-> Candidate(urls[j], entries[j][1])])
    /\ Separators(attr) + 1 = Len(entries)
    /\ \A j \in 1..Len(entries) :
          Special(urls[j]) => ~Special(Quote(urls[j])) /\ Quote(urls[j]) # urls[j]

\* The decoded file name of a reference.
FileOf(ref) == Basename(Url2Pathname(LStrip(UrlPath(ref), "/")))

\* base_url of a reference, as compute_paths makes it.
BaseUrl(ref, derivative) ==
    Join2(Dirname(ref), Pathname2Url(Join2(settings.process_dir, derivative)))

\* The urls of the srcset of a responsive image.
ImgUrls(ref, derivative, entries) ==
    [j \in 1..Len(entries) |-> Join(BaseUrl(ref, derivative), <<entries[j][1], FileOf(ref)>>)]

\* The urls of the srcset of a source of a picture.
SourceUrls(url, derivative, spec) ==
    [j \in 1..Len(spec.srcset) |->
        Join(Dirname(url), <<settings.process_dir, derivative, spec.name,
                             spec.srcset[j][1], Basename(url)>>)]

ResponsiveAt(k) ==
    /\ ~Undefined(k)
    /\ KnownType(IMAGE_PROCESS[DerivativeAt(k)])
    /\ IMAGE_PROCESS[DerivativeAt(k)].v.type = "responsive-image"
    /\ TriggerImg(k).srcset = None

\* Every srcset the k-th element was given is made of encoded candidates.
SrcsetsEncoded(k) ==
    /\ ResponsiveAt(k) =>
          SrcsetOk(ImgNow(k).srcset, IMAGE_PROCESS[DerivativeAt(k)].v.srcset,
                   ImgUrls(TriggerImg(k).src, DerivativeAt(k),
                           IMAGE_PROCESS[DerivativeAt(k)].v.srcset))
    /\ PictureIn(k, "div") =>
          \A i \in 1..Len(SourcesAt(k)) :
              SrcsetOk(soup[GroupAt(k)].kids[ImgAt(k)].kids[i].srcset,
                       SourcesAt(k)[i].srcset,
                       SourceUrls(UrlOf(k, SourcesAt(k)[i].name), DerivativeAt(k),
                                  SourcesAt(k)[i]))

\* The src the k-th element has after the call.
SrcNow(k) == IF PictureAt(k) THEN PictureImg(k).src ELSE ImgNow(k).src

Escaped(url) == \E i \in 1..Len(url) : url[i] = "%"

\* C17 as the specification states it: every url written into a srcset (of
\* an img or of a source) is percent-encoded when it holds a space or a
\* comma, so that no url part holds either and the attribute has as many
\* ", "-separated candidates as the derivative declares entries; a url
\* without space and comma is written as it is; and src is never
\* percent-encoded: it holds no escape that the reference did not hold.
C17_SrcNeverEncoded ==
    \A k \in Completed :
        /\ SrcsetsEncoded(k)
        /\ ~Undefined(k) /\ Escaped(SrcNow(k)) => Escaped(TriggerImg(k).src)

\* The label under which the default of a responsive image is stored.
DefaultDir(default) == IF default.py = "list" THEN DEFAULT ELSE default.v

\* The src composed for the k-th element, never quoted as a whole: the
\* directory of the reference as written, IMAGE_PROCESS_DIR and the
\* derivative (percent-encoded by pathname2url outside picture dispatch),
\* and the decoded file name.
SrcComposed(k, ref, d) ==
    IF PictureAt(k)
    THEN DefaultUrl(k, d.v.default.v[1], d.v.default.v[2])
    ELSE IF ResponsiveAt(k)
    THEN Join(BaseUrl(ref, DerivativeAt(k)), <<DefaultDir(d.v.default), FileOf(ref)>>)
    ELSE Join2(BaseUrl(ref, DerivativeAt(k)), FileOf(ref))

\* C17 as the code has it: every url written into a srcset is
\* percent-encoded as a whole when it holds a space or a comma, and written
\* as it is otherwise, so that the attribute has as many ", "-separated
\* candidates as the derivative declares entries; src is never passed
\* through that encoding and keeps the spaces and commas of the file name,
\* but outside picture dispatch its IMAGE_PROCESS_DIR/derivative segment is
\* percent-encoded (pathname2url), as it is in the urls of the srcset.
C17_SrcsetEncodedSrcComposed ==
    \A k \in Completed :
        /\ SrcsetsEncoded(k)
        /\ ~Undefined(k) =>
              SrcNow(k) = SrcComposed(k, TriggerImg(k).src, IMAGE_PROCESS[DerivativeAt(k)])

\* A responsive image whose reference holds a space has been processed: its
\* srcset holds two candidates with the space escaped, its src the space.
C17_Witness ==
    /\ pos >= 1 /\ ResponsiveAt(1)
    /\ Special(TriggerImg(1).src)
    /\ " " \in Range(ImgNow(1).src)
    /\ Escaped(ImgNow(1).srcset)
    /\ Separators(ImgNow(1).srcset) = 1

\* The element goes through process_img_tag.
ImageAt(k) ==
    /\ ~Undefined(k)
    /\ \/ IMAGE_PROCESS[DerivativeAt(k)].py = "list"
       \/ /\ KnownType(IMAGE_PROCESS[DerivativeAt(k)])
          /\ IMAGE_PROCESS[DerivativeAt(k)].v.type = "image"

\* The path of the reference below the site root: without scheme, network
\* location and leading "/", decoded.
RootRelative(ref) == LStrip(Url2Pathname(UrlPath(ref)), "/")

\* The filesystem side of compute_paths, seen in the job of the element.
FilesOk(k, ref) ==
    /\ Len(JobsOf(k)) = 1
    /\ JobsOf(k)[1].source = Join2(PATH, RootRelative(ref))
    /\ Dirname(JobsOf(k)[1].destination) =
          Join(OUTPUT_PATH, <<Dirname(RootRelative(ref)), settings.process_dir,
                              DerivativeAt(k)>>)

\* C18 as the specification states it: base_url is the directory of the
\* reference exactly as written (leading "../" and scheme and host kept)
\* joined with IMAGE_PROCESS_DIR and the derivative, the destination root is
\* OUTPUT_PATH/<directory of the root-relative source path>/
\* IMAGE_PROCESS_DIR/<derivative>, and the source is PATH/<root-relative
\* source path>.
C18_BaseUrlLiteral ==
    \A k \in Completed :
        ImageAt(k) =>
            /\ Dirname(ImgNow(k).src) =
                  Join(Dirname(TriggerImg(k).src), <<settings.process_dir, DerivativeAt(k)>>)
            /\ FilesOk(k, TriggerImg(k).src)

\* C18 as the code has it: base_url is the directory of the reference
\* exactly as written (leading "../" and scheme and host kept) joined with
\* the percent-encoded IMAGE_PROCESS_DIR/<derivative>; the destination root
\* is OUTPUT_PATH/<directory of the root-relative source path>/
\* IMAGE_PROCESS_DIR/<derivative>, not encoded, and the source is
\* PATH/<root-relative source path>.
C18_BaseUrlEncodedDir ==
    \A k \in Completed :
        ImageAt(k) =>
            /\ Dirname(ImgNow(k).src) = BaseUrl(TriggerImg(k).src, DerivativeAt(k))
            /\ FilesOk(k, TriggerImg(k).src)

\* A reference with a scheme and host and one with "../" have been
\* processed: both src keep the beginning of the reference, the first job
\* reads PATH/t/a and the second PATH/../t/a.
C18_Witness ==
    /\ pos = 2 /\ ImageAt(1) /\ ImageAt(2)
    /\ TriggerImg(1).src = SrcHost /\ TriggerImg(2).src = SrcUp
    /\ StartsWith(ImgNow(1).src, <<"h", ":", "/", "/", "x", "/">>)
    /\ StartsWith(ImgNow(2).src, <<".", ".", "/">>)
    /\ JobsOf(1)[1].source = Join2(PATH, <<"t", "/", "a">>)
    /\ JobsOf(2)[1].source = Join2(PATH, SrcUp)

\* ------------------------------------------------------------------------
\* Image operations
\* ------------------------------------------------------------------------

\* The decimal numeral of a natural number.
RECURSIVE Numeral(_)
Numeral(n) ==
    IF n < 10 THEN << <<"0", "1", "2", "3", "4", "5", "6", "7", "8", "9">>[n + 1] >>
    ELSE Numeral(n \div 10) \o Numeral(n % 10)

\* Numeric strings with the number n/d each denotes: naturals, negative
\* integers and numbers with one decimal.
Literals ==
    LET Whole == (0..9) \cup {50, 200}
    IN {[s |-> Numeral(a), n |-> a, d |-> 1] : a \in Whole}
       \cup {[s |-> <<"-">> \o Numeral(a), n |-> 0 - a, d |-> 1] : a \in Whole}
       \cup {[s |-> Numeral(a) \o <<".">> \o Numeral(b), n |-> 10 * a + b, d |-> 10] :
                a \in 0..9, b \in 0..9}

Numeric(x) == \E l \in Literals : l.s = x

Percentage(x) == \E l \in Literals : l.s \o <<"%">> = x

\* The dimension a coordinate of convert_box is a percentage of: the height
\* for top (1) and bottom (4), the width for left (2) and right (3).
DimensionOf(i, k) == IF k \in {1, 4} THEN i.height ELSE i.width

\* The float x is the number n/d.
Is(x, n, d) == x.n * d = n * x.d

\* The k-th coordinate returned is the value the k-th parameter stands for.
CoordinateOk(i, x, k, out) ==
    \A l \in Literals :
        /\ x = l.s => Is(out, l.n, l.d)
        /\ x = l.s \o <<"%">> => Is(out, DimensionOf(i, k) * l.n, 100 * l.d)

\* C19: convert_box gives, for each of its four parameters, dimension * p /
\* 100 for a string "p%" (the image height for top and bottom, the width for
\* left and right) and the literal value for a plain numeric string; when a
\* parameter is neither a percentage nor numeric the call fails with a
\* parsing error (ValueError, or IndexError for an empty string) and returns
\* nothing.
C19_ConvertBox ==
    op.done = "convert_box" =>
        IF \A k \in 1..4 : Numeric(op.args[k]) \/ Percentage(op.args[k])
        THEN /\ op.out.exc = "none"
             /\ \A k \in 1..4 : CoordinateOk(op.i, op.args[k], k, op.out.v[k])
        ELSE op.out.exc \in {"ValueError", "IndexError"} /\ op.out.v = << >>

\* convert_box was called on a 4x2 image with top and left "50%", right
\* "2.5" and bottom "200%": it gave 1, 2, 2.5 and 4.
C19_Witness ==
    /\ op.done = "convert_box"
    /\ op.i = [width |-> 4, height |-> 2]
    /\ op.args = << <<"5", "0", "%">>, <<"5", "0", "%">>, <<"2", ".", "5">>,
                    <<"2", "0", "0", "%">> >>
    /\ op.out.exc = "none"
    /\ Is(op.out.v[1], 1, 1) /\ Is(op.out.v[2], 2, 1)
    /\ Is(op.out.v[3], 5, 2) /\ Is(op.out.v[4], 4, 1)

\* The ratios n/d a parameter of scale stands for, for the dimension dim.
RatiosOf(x, dim) ==
    (IF x = NoneStr THEN {<<1, 1>>} ELSE {})
    \cup {<<l.n, l.d * dim>> : l \in {m \in Literals : m.s = x}}
    \cup {<<l.n, l.d * 100>> : l \in {m \in Literals : m.s \o <<"%">> = x}}

\* The integer part of n/d (d > 0), towards zero.
Trunc(n, d) ==
    CHOOSE t \in (0 - 40)..40 :
        \/ n >= 0 /\ t * d <= n /\ n < (t + 1) * d
        \/ n < 0 /\ t * d >= n /\ n > (t - 1) * d

\* The factor applied: the smaller ratio for scale_in, the larger for
\* scale_out, and at most 1 when clamped.
Factor(rw, rh, inside, clamp) ==
    LET smaller == IF rw[1] * rh[2] <= rh[1] * rw[2] THEN rw ELSE rh
        larger == IF rw[1] * rh[2] <= rh[1] * rw[2] THEN rh ELSE rw
        f == IF inside THEN smaller ELSE larger
    IN IF clamp /\ f[1] > f[2] THEN <<1, 1>> ELSE f

SizeOk(i, f, size) ==
    /\ size[1] = Trunc(f[1] * i.width, f[2])
    /\ size[2] = Trunc(f[1] * i.height, f[2])

\* upscale is one of 0, "0", "False", False.
Clamping(upscale) ==
    upscale \in { [py |-> "int", v |-> <<"0">>], [py |-> "str", v |-> <<"0">>],
                  [py |-> "str", v |-> <<"F", "a", "l", "s", "e">>],
                  [py |-> "bool", v |-> <<"F", "a", "l", "s", "e">>] }

\* C20: scale_in and scale_out, with the width ratio rw and the height ratio
\* rh (each 1.0 for "None"), apply the factor min(rw, rh) and max(rw, rh);
\* when upscale is one of 0, "0", "False", False the factor is clamped to at
\* most 1.0, so that the output is not larger than the original; the output
\* size is (trunc(f * width), trunc(f * height)).
C20_Scale ==
    op.done = "scale" =>
        \A rw \in RatiosOf(op.args[1], op.i.width), rh \in RatiosOf(op.args[2], op.i.height) :
            /\ op.out.exc = "none"
            /\ SizeOk(op.i, Factor(rw, rh, op.inside, Clamping(op.upscale)), op.out.v)
            /\ Clamping(op.upscale) =>
                  op.out.v[1] <= op.i.width /\ op.out.v[2] <= op.i.height

\* scale_out was called on a 3x6 image with "6" and "50%" and upscale
\* "True": the ratios are 2 and 0.5, the factor 2 and the size 6x12.
C20_Witness ==
    /\ op.done = "scale"
    /\ op.i = [width |-> 3, height |-> 6]
    /\ op.args[1] = <<"6">> /\ op.args[2] = <<"5", "0", "%">>
    /\ ~op.inside /\ op.upscale = [py |-> "str", v |-> <<"T", "r", "u", "e">>]
    /\ op.out.v = <<6, 12>>

\* The integers the parameter x of crop stands for once truncated, a
\* percentage being taken of dim.
CropValues(x, dim) ==
    {Trunc(l.n, l.d) : l \in {m \in Literals : m.s = x}}
    \cup {Trunc(dim * l.n, 100 * l.d) : l \in {m \in Literals : m.s \o <<"%">> = x}}

\* The step parameters are all numbers or percentages.
CropStated == \A k \in 1..4 : Numeric(op.args[k]) \/ Percentage(op.args[k])

\* The box is (left, upper, right, lower) with the step's parameters at the
\* positions at(1..4) and resolved against the dimensions dims(1..4).
CropBoxIs(at, dims) ==
    /\ op.out.exc = "none"
    /\ \A k \in 1..4 : op.out.v[k] \in CropValues(op.args[at[k]], dims[k])

\* C25 as stated: crop takes the parameters of its step in the order top,
\* left, right, bottom; a percentage in the first or fourth is resolved
\* against the image height and in the second or third against the width;
\* each value is truncated to an integer and the region cut is the box
\* (left, top)-(right, bottom).
C25_CropTopLeftRightBottom ==
    op.done = "crop" /\ CropStated =>
        CropBoxIs(<<2, 1, 3, 4>>, <<op.i.width, op.i.height, op.i.width, op.i.height>>)

\* C25 amended: crop takes the parameters of its step in the order left,
\* top, right, bottom; a percentage in the first or third is resolved
\* against the image width and in the second or fourth against the height;
\* each value is truncated to an integer and the region cut is the box
\* (left, top)-(right, bottom).
C25_CropLeftTopRightBottom ==
    op.done = "crop" /\ CropStated =>
        CropBoxIs(<<1, 2, 3, 4>>, <<op.i.width, op.i.height, op.i.width, op.i.height>>)

\* The step "crop 50% 1 2.5 200%" was applied to a 4x2 image: the box is
\* (2, 1)-(2, 4), the first parameter being the left edge, half the width.
C25_Witness ==
    /\ op.done = "crop"
    /\ op.i = [width |-> 4, height |-> 2]
    /\ op.args = << <<"5", "0", "%">>, <<"1">>, <<"2", ".", "5">>, <<"2", "0", "0", "%">> >>
    /\ op.out = [exc |-> "none", v |-> <<2, 1, 2, 4>>]

\* The size n/d requested for a dimension dim by the parameter x of scale:
\* the number itself, the percentage of dim, and dim for "None".
Requested(x, dim) == {<<r[1] * dim, r[2]>> : r \in RatiosOf(x, dim)}

\* scale was applied with a requested width and a requested height.
ScaleStated ==
    /\ op.done = "scale"
    /\ Requested(op.args[1], op.i.width) # {} /\ Requested(op.args[2], op.i.height) # {}

\* The result is not larger than the requested width and height.
WithinRequested ==
    \A w \in Requested(op.args[1], op.i.width), h \in Requested(op.args[2], op.i.height) :
        /\ op.out.exc = "none"
        /\ op.out.v[1] * w[2] <= w[1] /\ op.out.v[2] * h[2] <= h[1]

\* The result is not smaller than the requested width and height.
CoversRequested ==
    \A w \in Requested(op.args[1], op.i.width), h \in Requested(op.args[2], op.i.height) :
        /\ op.out.exc = "none"
        /\ op.out.v[1] * w[2] >= w[1] /\ op.out.v[2] * h[2] >= h[1]

\* The result is not smaller than the integer parts of the requested width
\* and height.
CoversTruncated ==
    \A w \in Requested(op.args[1], op.i.width), h \in Requested(op.args[2], op.i.height) :
        /\ op.out.exc = "none"
        /\ op.out.v[1] >= Trunc(w[1], w[2]) /\ op.out.v[2] >= Trunc(h[1], h[2])

\* The factor of scale_out exceeds 1 and upscale forbids it.
Clamped ==
    /\ Clamping(op.upscale)
    /\ \E w \in Requested(op.args[1], op.i.width), h \in Requested(op.args[2], op.i.height) :
           w[1] > w[2] * op.i.width \/ h[1] > h[2] * op.i.height

RECURSIVE Nested(_)
Nested(ops) ==
    IF ops = << >> THEN Opened
    ELSE ApplyStep(Nested(SubSeq(ops, 1, Len(ops) - 1)), ops[Len(ops)]).i

\* The call i of the log wrote its destination and no later call did.
WroteLast(i) ==
    /\ log[i].outcome = "written"
    /\ LastWrite(Unquote(log[i].job.destination)) = i

\* C21: process_image applies the operations of a job strictly in list
\* order, the output of each step being the input of the next, for named
\* primitives and callables alike: the image written is
\* op_n(... op_1(source) ...), and with an empty operation list it is the
\* source image, unchanged in size.
C21_StepsInOrder ==
    \A i \in 1..Len(log) :
        WroteLast(i) =>
            /\ Holds(Unquote(log[i].job.destination), log[i])
            /\ dstFiles[Unquote(log[i].job.destination)].content.size = Nested(log[i].job.ops)
            /\ log[i].job.ops = << >> =>
                  dstFiles[Unquote(log[i].job.destination)].content.size = Opened

\* A job of four steps, one of them a callable, wrote a 1x2 image from the
\* 4x2 source (6x4, 4x2, 2x4, 1x2), and a job without steps wrote a 4x2 one.
C21_Witness ==
    /\ \E i \in 1..Len(log) :
          /\ WroteLast(i) /\ log[i].job.ops = OpsChain
          /\ dstFiles[Unquote(log[i].job.destination)].content.size
                 = [width |-> 1, height |-> 2]
    /\ \E i \in 1..Len(log) : WroteLast(i) /\ log[i].job.ops = << >>

\* The positions of a step whose words must be numbers.
NumberedWords(name) ==
    CASE name = "crop" -> 2..5
      [] name \in {"resize", "scale_in", "scale_out"} -> 2..3
      [] name = "rotate" -> 2..2
      [] OTHER -> {}

\* The step names no operation, or has the wrong number of parameters, or
\* has a parameter that is no number (nor a percentage, nor "None" for a
\* scale).
Faulty(step) ==
    /\ ~Callable(step)
    /\ \/ step[1] \notin BasicOpNames
       \/ Len(step) - 1 # Arity(step[1])
       \/ \E k \in NumberedWords(step[1]) :
             /\ ~Numeric(step[k]) /\ ~Percentage(step[k])
             /\ ~(step[1] \in {"scale_in", "scale_out"} /\ step[k] = NoneStr)

\* The call e opened its source and applied every step of its job, and then
\* wrote the file at path.
WroteAfterSteps(e, path) ==
    /\ Unquote(e.job.destination) = path
    /\ e.outcome = "written"
    /\ e.before.sstate = "ok"
    /\ \A k \in 1..Len(e.job.ops) : ~Faulty(e.job.ops[k])

\* C28: process_image creates the destination directories and the
\* destination file only after the source was opened and every operation
\* applied without error: a destination is created or modified, and its
\* metadata copied, only by a call that wrote it, and a call whose source
\* cannot be opened or one of whose steps raises (unknown operation name,
\* wrong number of parameters, non-numeric parameter) leaves every file as
\* it was.
C28_WriteOnlyAfterSteps ==
    [][\A path \in DOMAIN dstFiles' :
          (path \notin DOMAIN dstFiles \/ dstFiles'[path] # dstFiles[path]) =>
              \E i \in (Len(log) + 1)..Len(log') : WroteAfterSteps(log'[i], path)]_vars

\* A job was written and then a job with a step short of parameters raised
\* TypeError, after a first step that could be applied: its destination
\* does not exist.
C28_Witness ==
    /\ pc = "raised" /\ exc = "TypeError" /\ dst0 = "absent"
    /\ Len(log) = 2
    /\ log[1].outcome = "written"
    /\ log[2].outcome = "raised" /\ log[2].job.ops = OpsArity
    /\ Unquote(log[2].job.destination) \notin DOMAIN dstFiles

\* The token has the form image-process-<name>, <name> being a non-empty
\* sequence of letters, digits, hyphens and underscores.
IsMarker(token) ==
    /\ Len(token) >= 2
    /\ token[1] = MARK
    /\ \A i \in 2..Len(token) : token[i] \in NameChars

\* The positions of the class tokens of that form.
Markers(img) ==
    IF img.class = None THEN {} ELSE {i \in 1..Len(img.class) : IsMarker(img.class[i])}

\* The <name> of the first of them.
NameOf(img) == Drop(img.class[First(Markers(img))], 1)

\* The img of a group of the fragment (a group of these fragments holds one).
OnlyImg(g) == fragment[g].kids[1]

\* The group g of the fragment is where the call raised.
RaisedAt(g) ==
    /\ pc = "raised"
    /\ pos < Len(ScanList(fragment))
    /\ GroupAt(pos + 1) = g

\* The group g of the fragment was scanned without an exception.
ScannedAt(g) == \E k \in Completed : GroupAt(k) = g

\* The process_image calls made for the group g.
JobsAt(g) == {log[i].job : i \in {j \in 1..Len(log) : GroupAt(log[j].elem) = g}}

\* The element of the group g was processed for the derivative name, and
\* for no other: the call went on after it only if name is defined, with
\* jobs that all write under the directory of name, and stopped at it only if
\* name is undefined.
ProcessedFor(g, name) ==
    /\ ScannedAt(g) =>
          /\ name \in DOMAIN IMAGE_PROCESS
          /\ JobsAt(g) # {}
          /\ \A job \in JobsAt(g) : Basename(Dirname(job.destination)) = name
    /\ RaisedAt(g) => name \notin DOMAIN IMAGE_PROCESS

\* The element of the group g was left alone.
Ignored(g) ==
    /\ ~RaisedAt(g)
    /\ JobsAt(g) = {}
    /\ soup[g] = fragment[g]

\* C22: an element is a trigger exactly when one of its class tokens has the
\* form image-process-<name>, <name> being a non-empty sequence of letters,
\* digits, hyphens and underscores; its derivative is the <name> of the first
\* such token, and an element has at most one derivative.
C22_TriggerIffMarker ==
    pc # "idle" =>
        \A g \in 1..Len(fragment) :
            IF Markers(OnlyImg(g)) # {}
            THEN ProcessedFor(g, NameOf(OnlyImg(g)))
            ELSE Ignored(g)

\* The decoded path of the reference of the element the call e was made for.
DecodedPath(e) == Url2Pathname(LStrip(UrlPath(TriggerImg(e.elem).src), "/"))

\* The record has a non-empty save_as that is a suffix of the path.
SavedAs(record, path) == record.save_as # Empty /\ EndsWith(path, record.save_as)

\* The records of static_content before the k-th do not match the path.
NoneBefore(k, path) ==
    \A j \in 1..(k - 1) : ~SavedAs(settings.static_content[j], path)

\* The job takes its source and its output root from the record.
FromRecord(job, record, derivative) ==
    /\ job.source = record.source_path
    /\ Dirname(job.destination)
          = Join(record.output_path,
                 <<Dirname(record.save_as), settings.process_dir, derivative>>)

\* The job takes its source from the content directory and its output root
\* from the output directory of the site.
FromSiteRoots(job) == StartsWith(job.source, PATH) /\ StartsWith(job.destination, OUTPUT_PATH)

\* C23: compute_paths takes the source and the output root from the first
\* generated-content record whose save_as is non-empty and a suffix of the
\* decoded reference path: the source is the record's source_path and the
\* output root the record's OUTPUT_PATH/dirname(save_as)/process_dir/
\* derivative; a record with an empty save_as never matches, and the
\* site-URL fallback is used only when no record matches.
C23_FirstMatchingRecord ==
    \A i \in 1..Len(log) :
        /\ \A k \in 1..Len(settings.static_content) :
              (SavedAs(settings.static_content[k], DecodedPath(log[i]))
                  /\ NoneBefore(k, DecodedPath(log[i])))
              => FromRecord(log[i].job, settings.static_content[k], DerivativeAt(log[i].elem))
        /\ NoneBefore(Len(settings.static_content) + 1, DecodedPath(log[i]))
              => FromSiteRoots(log[i].job)

\* A call was made for "/t/a" with a first record whose save_as is empty
\* and a second saved as "t/a": the job reads "/s/x" and writes under
\* "/p/t/d/c".
C23_Witness ==
    \E i \in 1..Len(log) :
        /\ Len(settings.static_content) = 2
        /\ settings.static_content[1].save_as = Empty
        /\ log[i].job.source = <<"/", "s", "/", "x">>
        /\ Dirname(log[i].job.destination) = <<"/", "p", "/", "t", "/", "d", "/", "c">>

\* url2pathname of the path of SITEURL without its leading slash; None when
\* SITEURL is not set.
SitePath == IF settings.siteurl = None THEN None ELSE SiteUrlPath(settings.siteurl)

\* The path of SITEURL is set, non-empty and a prefix of the path.
SitePrefixOf(path) ==
    /\ SitePath # None
    /\ SitePath # Empty
    /\ StartsWith(path, SitePath)

\* C24: in the SITEURL fallback the path of the site URL is stripped from
\* the reference only if it is present as a prefix: when SITEURL is not set,
\* has an empty path, or has a path that is no prefix of the reference,
\* nothing is stripped and the source is PATH/<reference path without its
\* leading slash>, so that the source never loses its directory and filename.
C24_SiteUrlStrippedIfPrefix ==
    \A i \in 1..Len(log) :
        NoneBefore(Len(settings.static_content) + 1, DecodedPath(log[i])) =>
            IF SitePrefixOf(DecodedPath(log[i]))
            THEN log[i].job.source
                    = Join2(PATH, LStrip(Drop(DecodedPath(log[i]), Len(SitePath)), "/"))
            ELSE log[i].job.source = Join2(PATH, LStrip(DecodedPath(log[i]), "/"))

\* The files the current call wrote.
WrittenNow == {Unquote(log[i].job.destination) : i \in {j \in 1..Len(log) : WroteLast(j)}}

\* C27: over any sequence of harvest_images_in_fragment calls, calls that
\* aborted with a configuration error included, the ExifTool instance is
\* started at every process_image invocation exactly when
\* IMAGE_PROCESS_COPY_EXIF_TAGS is true for the current call: while a call
\* scans, the instance exists iff the call asked for it, and a file the call
\* wrote has its metadata copied only if the call asked for it.
C27_ExifToolOnlyWhenAsked ==
    /\ pc = "scanning" => (exifInstance <=> call.copy_exif)
    /\ \A path \in WrittenNow : dstFiles[path].content.tags <=> call.copy_exif

\* The tree the fragment and the settings determine: each selected element
\* rewritten as its iteration of the loop rewrites it.
HtmlOf(tree, set) ==
    [g \in 1..Len(tree) |->
        IF Triggers(tree[g]) = {} THEN tree[g]
        ELSE HarvestElement(tree[g], TriggerOf(tree[g]), set).group]

\* The settings define every derivative the fragment asks for, correctly.
Configured(tree, set) ==
    \A g \in 1..Len(tree) :
        Triggers(tree[g]) # {} => HarvestElement(tree[g], TriggerOf(tree[g]), set).exc = "none"

\* C29: the HTML harvest_images_in_fragment returns depends only on the
\* fragment and the settings: whatever the state of the files (source
\* missing or present, destination absent, stale or fresh), a call on a
\* fragment whose derivatives are all defined returns the same HTML, with the
\* src and srcset rewritten whether or not the derivative files were built.
C29_HtmlIgnoresFiles ==
    (pc \in {"returned", "raised"} /\ Configured(fragment, settings)) =>
        IF pc = "returned" THEN result = HtmlOf(fragment, settings) ELSE FALSE

\* The jobs the k-th trigger element asks for, in order.
JobsAskedBy(k) == HarvestElement(fragment[GroupAt(k)], ImgAt(k), settings).jobs

\* process_image was called for every job the k-th trigger element asks
\* for, in order, and the file of each job is there (written by the call, or
\* found up to date by it).
Executed(k) ==
    /\ JobsOf(k) = JobsAskedBy(k)
    /\ \A i \in 1..Len(log) :
          log[i].elem = k =>
              /\ log[i].outcome \in {"written", "skipped"}
              /\ Unquote(log[i].job.destination) \in DOMAIN dstFiles

\* No job of the k-th trigger element was executed.
NotRun(k) == JobsOf(k) = << >>

\* C30: each build job is executed at the moment it is queued, before the
\* scan moves on: at every point of a call the jobs of the trigger elements
\* already scanned have all been executed and no job of an element not yet
\* reached has; so when a fatal configuration error at the k-th trigger
\* element aborts the fragment, the files written for the elements before k
\* remain and nothing was done for the elements after k.
C30_JobsRunWhenQueued ==
    pc # "idle" =>
        /\ \A k \in Completed : Executed(k)
        /\ \A k \in (pos + 1)..Len(ScanList(fragment)) : pc = "scanning" => NotRun(k)
        /\ \A k \in (pos + 2)..Len(ScanList(fragment)) : NotRun(k)
        /\ \A path \in DOMAIN dstFiles : LastWrite(path) > 0

\* The call was aborted by the undefined derivative of its second trigger
\* element: the jobs of the first were executed and their files are there.
C30_Witness ==
    /\ pc = "raised" /\ exc = "RuntimeError"
    /\ pos = 1 /\ Undefined(2)
    /\ JobsOf(1) # << >> /\ Executed(1)
    /\ dstFiles # NoFiles

====
